---- MODULE Spec2Model ----
(***************************************************************************)
(* A model of the extraction and reconciliation engine of process_study.py *)
(* (worksheet grid -> items, triggers, value triples -> CSV rows).         *)
(*                                                                         *)
(* Text is modelled as a sequence of one-character strings so that the     *)
(* string operations of the source (strip, lower, split, rsplit, the       *)
(* regular expressions) are computed and not assumed.  A worksheet is a    *)
(* sparse function from <<row, column>> to a cell value; a cell outside    *)
(* its domain reads as None, as with openpyxl.                             *)
(***************************************************************************)
EXTENDS Integers, Sequences, FiniteSets, TLC

(***************************************************************************)
(* Python strings                                                          *)
(***************************************************************************)
Chars(s) == [i \in 1..Len(s) |-> SubSeq(s, i, i)]

\* body with its name standing for the value v: a local assignment of the source
With(v, body(_)) == body(v)

UPPERCASE == Chars("ABCDEFGHIJKLMNOPQRSTUVWXYZ")
LOWERCASE == Chars("abcdefghijklmnopqrstuvwxyz")
DIGITS == {"0", "1", "2", "3", "4", "5", "6", "7", "8", "9"}
UpperSet == {UPPERCASE[i] : i \in 1..26}
LowerSet == {LOWERCASE[i] : i \in 1..26}
Letters == UpperSet \cup LowerSet
\* "mu" stands for the one character U+03BC of the source's patterns
WordChars == Letters \cup DIGITS \cup {"_", "mu"}

IndexOf(c, seq) == CHOOSE i \in 1..Len(seq) : seq[i] = c

lower_char(c) == IF c \in UpperSet THEN LOWERCASE[IndexOf(c, UPPERCASE)] ELSE c
upper_char(c) == IF c \in LowerSet THEN UPPERCASE[IndexOf(c, LOWERCASE)] ELSE c

lower(s) == [i \in 1..Len(s) |-> lower_char(s[i])]
upper(s) == [i \in 1..Len(s) |-> upper_char(s[i])]

isspace(c) == c = " "
isalnum(c) == c \in Letters \cup DIGITS \cup {"mu"}

\* str.strip(): drop leading and trailing whitespace
strip(s) ==
    With({i \in 1..Len(s) : ~isspace(s[i])}, LAMBDA idx :
        IF idx = {} THEN <<>>
        ELSE SubSeq(s, CHOOSE i \in idx : \A j \in idx : i <= j,
                       CHOOSE i \in idx : \A j \in idx : i >= j))

\* str.isdigit()
isdigit(s) == Len(s) > 0 /\ \A i \in 1..Len(s) : s[i] \in DIGITS

\* str.replace(c, '') for a one-character c
remove_char(s, c) == SelectSeq(s, LAMBDA x : x # c)

startswith(s, p) == Len(p) <= Len(s) /\ SubSeq(s, 1, Len(p)) = p
endswith(s, p) == Len(p) <= Len(s) /\ SubSeq(s, Len(s) - Len(p) + 1, Len(s)) = p

\* the literal lit occurs in s at position i
LitAt(s, i, lit) == i >= 1 /\ i + Len(lit) - 1 <= Len(s) /\ SubSeq(s, i, i + Len(lit) - 1) = lit

\* Python's `sub in s`
Contains(s, sub) == \E i \in 1..(Len(s) + 1) : LitAt(s, i, sub)

\* str.split(): the maximal runs of non-whitespace characters, in order
RECURSIVE split_from(_, _)
split_from(s, i) ==
    IF i > Len(s) THEN <<>>
    ELSE IF isspace(s[i]) THEN split_from(s, i + 1)
    ELSE With({j \in i..Len(s) : isspace(s[j])}, LAMBDA stops :
         With(IF stops = {} THEN Len(s) + 1 ELSE CHOOSE j \in stops : \A k \in stops : j <= k, LAMBDA e :
             <<SubSeq(s, i, e - 1)>> \o split_from(s, e)))
split(s) == split_from(s, 1)

\* str(n) for a natural number n
RECURSIVE str_int(_)
str_int(n) ==
    LET d == Chars("0123456789")[(n % 10) + 1]
    IN  IF n < 10 THEN <<d>> ELSE str_int(n \div 10) \o <<d>>

(***************************************************************************)
(* Cell values: None, a text or a number                                   *)
(***************************************************************************)
None == [t |-> "none", s |-> <<>>, n |-> 0]
Str(s) == [t |-> "str", s |-> s, n |-> 0]
Num(n) == [t |-> "num", s |-> <<>>, n |-> n]

\* str(value)
str(v) == IF v.t = "none" THEN Chars("None")
          ELSE IF v.t = "str" THEN v.s
          ELSE str_int(v.n)

\* is_empty_or_zero of a string list element or a cell value
is_empty_or_zero(v) ==
    \/ v.t = "none"
    \/ v.t = "str" /\ strip(v.s) = <<>>
    \/ v.t = "num" /\ v.n = 0
    \/ strip(str(v)) = <<"0">>

\* normalize_string: lowercase, alphanumeric characters only
normalize_string(s) == SelectSeq(lower(strip(s)), isalnum)

(***************************************************************************)
(* Config                                                                  *)
(***************************************************************************)
TARGET_START_COLUMN == 6
TARGET_COLUMN_SPACING == 4
MAX_TARGETS == 30
MAX_TRIGGERS == 20

TISSUE_TYPES == {
    Chars("lung"), Chars("cerebellum"), Chars("cortex"), Chars("eye"), Chars("liver"),
    Chars("heart"), Chars("kidney"), Chars("spleen"), Chars("brain"), Chars("muscle"),
    Chars("skin"), Chars("blood"), Chars("plasma"), Chars("serum"), Chars("bone"),
    Chars("fat"), Chars("adipose"), Chars("pancreas"), Chars("stomach"), Chars("intestine"),
    Chars("colon"), Chars("bladder"), Chars("prostate"), Chars("ovary"), Chars("uterus"),
    Chars("hippocampus"), Chars("cerebral cortex"), Chars("frontal cortex"),
    Chars("motor cortex"), Chars("brainstem"), Chars("midbrain"), Chars("spinal cord"),
    Chars("thoracic spinal cord"), Chars("lumbar spinal cord"), Chars("cervical spinal cord"),
    Chars("skeletal muscle"), Chars("cardiac muscle"), Chars("diaphragm"), Chars("quadriceps"),
    Chars("gastrocnemius"), Chars("tibialis anterior"), Chars("retina"), Chars("optic nerve"),
    Chars("adrenal gland"), Chars("sciatic nerve"), Chars("striatum"), Chars("lymph node"),
    Chars("kidney cortex"), Chars("gastroc"), Chars("triceps"), Chars("apex"),
    Chars("left ventricle"), Chars("right ventricle"), Chars("left atrium"),
    Chars("right atrium"), Chars("medial lobe"), Chars("aorta"), Chars("rlung"),
    Chars("llung"), Chars("macrophage"), Chars("tri"), Chars("gast"), Chars("gst"),
    Chars("hrt"), Chars("iWAT"), Chars("thalamus"), Chars("TSC"), Chars("Cer"), Chars("Ctx"),
    Chars("Left Lateral Lobe"), Chars("Right Lateral Lobe"), Chars("Medial Lobe"),
    Chars("Teste"), Chars("bone marrow") }

\* The dictionary load_known_targets builds from alltargets.csv: upper-cased
\* target names and aliases, each mapped to the canonical target name.
KNOWN_TARGETS ==
    [k \in {Chars("ACVR2B"), Chars("ACTRIIB"), Chars("HDAC11")} |->
        IF k = Chars("HDAC11") THEN Chars("HDAC11") ELSE Chars("ACVR2B")]

(***************************************************************************)
(* VocabularyClassifier                                                    *)
(***************************************************************************)
SPECIES_PREFIXES == <<"R", "M", "H", "C">>

\* is_known_target: <<is_target, canonical_target_name>>; the canonical name
\* of a miss is None, written here as the empty text.
is_known_target(text) ==
    With(upper(strip(text)), LAMBDA text_upper :
    With({i \in 1..4 : /\ startswith(text_upper, <<SPECIES_PREFIXES[i]>>)
                       /\ Len(text_upper) > 1
                       /\ Tail(text_upper) \in DOMAIN KNOWN_TARGETS}, LAMBDA hits :
        IF text = <<>> THEN <<FALSE, <<>>>>
        ELSE IF text_upper \in DOMAIN KNOWN_TARGETS THEN <<TRUE, KNOWN_TARGETS[text_upper]>>
        ELSE IF hits # {}
             THEN <<TRUE, <<lower_char(SPECIES_PREFIXES[CHOOSE i \in hits : \A j \in hits : i <= j])>>
                             \o KNOWN_TARGETS[Tail(text_upper)]>>
        ELSE <<FALSE, <<>>>>))

is_tissue_name_lowered(text) == lower(text) \in {lower(t) : t \in TISSUE_TYPES}

\* is_tissue_name: the lower-cased text is looked up in the catalog as written
is_tissue_name(text) == text # <<>> /\ lower(strip(text)) \in TISSUE_TYPES

Range(seq) == {seq[i] : i \in 1..Len(seq)}

\* classify_target_or_tissue: [kind, name]; the source returns
\* (classification, tissue_name, target_name) with exactly one name set.
Target(name) == [kind |-> "target", name |-> name]
Tissue(name) == [kind |-> "tissue", name |-> name]

classify_target_or_tissue(text, procedure_tissues) ==
    With(strip(text), LAMBDA text_clean :
    With(is_known_target(text_clean), LAMBDA known :
    With(split(text_clean), LAMBDA words :
        IF text = <<>> THEN Target(<<>>)
        ELSE IF known[1] THEN Target(known[2])
        ELSE IF \E p \in Range(procedure_tissues) :
                    normalize_string(text_clean) = normalize_string(p)
             THEN Tissue(text_clean)
        ELSE IF is_tissue_name(text_clean) THEN Tissue(text_clean)
        ELSE IF /\ Len(words) > 1
                /\ \/ \E tt \in TISSUE_TYPES \cup Range(procedure_tissues) :
                         Contains(lower(text_clean), lower(tt))
                   \/ \E w \in Range(words) :
                         \/ is_tissue_name(strip(w))
                         \/ \E p \in Range(procedure_tissues) :
                               normalize_string(strip(w)) = normalize_string(p)
             THEN Tissue(text_clean)
        ELSE Target(text_clean))))

(***************************************************************************)
(* Regular expressions of the source, matched as Python's re matches them. *)
(* A matcher takes the text and a start index and gives the index just     *)
(* after the match, or 0 when the pattern does not match there.  None of   *)
(* the source's patterns matches the empty text.                           *)
(***************************************************************************)
SetMin(S) == CHOOSE x \in S : \A y \in S : x <= y
SetMax(S) == CHOOSE x \in S : \A y \in S : x >= y

\* the end of the longest run of characters of class C starting at i
SpanWhile(s, i, C) ==
    With({j \in i..Len(s) : s[j] \notin C}, LAMBDA stops :
        IF stops = {} THEN IF i > Len(s) THEN i ELSE Len(s) + 1 ELSE SetMin(stops))

SPACE == {" "}

\* \b at index p: between s[p-1] and s[p]
IsWordAt(s, p) == p >= 1 /\ p <= Len(s) /\ s[p] \in WordChars
WordBoundary(s, p) == IsWordAt(s, p - 1) # IsWordAt(s, p)

\* \d+(?:\.\d+)?
NumEnd(s, i) ==
    With(SpanWhile(s, i, DIGITS), LAMBDA e1 :
    With(SpanWhile(s, e1 + 1, DIGITS), LAMBDA e2 :
        IF i < 1 \/ i > Len(s) \/ e1 = i THEN 0
        ELSE IF e1 <= Len(s) /\ s[e1] = "." /\ e2 > e1 + 1 THEN e2
        ELSE e1))

\* (?:u1|u2|...) at i, followed by \b when wb: the first alternative, in the
\* order written, that matches and leaves the rest of the pattern matching
AltEnd(s, i, units, wb) ==
    With({k \in 1..Len(units) : /\ LitAt(s, i, units[k])
                                /\ wb => WordBoundary(s, i + Len(units[k]))}, LAMBDA ok :
        IF i < 1 \/ ok = {} THEN 0 ELSE i + Len(units[SetMin(ok)]))

\* \d+(?:\.\d+)?\s*(?:units)  with an optional trailing \b
NumUnitEnd(s, i, units, wb) ==
    With(NumEnd(s, i), LAMBDA e1 :
        IF e1 = 0 THEN 0 ELSE AltEnd(s, SpanWhile(s, e1, SPACE), units, wb))

\* \d+\s*x\s*\d+(?:\.\d+)?\s*(?:units)  with an optional trailing \b
MultiNumUnitEnd(s, i, units, wb) ==
    With(SpanWhile(s, i, DIGITS), LAMBDA e1 :
    With(SpanWhile(s, e1, SPACE), LAMBDA e2 :
        IF i < 1 \/ i > Len(s) \/ e1 = i THEN 0
        ELSE IF ~LitAt(s, e2, <<"x">>) THEN 0
        ELSE NumUnitEnd(s, SpanWhile(s, e2 + 1, SPACE), units, wb)))

\* \s+ followed by the pattern M
SpacesThen(s, i, M(_, _)) ==
    With(SpanWhile(s, i, SPACE), LAMBDA e :
        IF i < 1 \/ i > Len(s) \/ e = i THEN 0 ELSE M(s, e))

\* re.search: the leftmost index at which M matches, or 0
SearchStart(s, M(_, _)) ==
    With({i \in 1..Len(s) : M(s, i) # 0}, LAMBDA starts :
        IF starts = {} THEN 0 ELSE SetMin(starts))

\* re.sub(pattern, '', s): every non-overlapping match, leftmost first, removed
SubRemove(s, M(_, _)) ==
    LET rest[i \in 1..(Len(s) + 1)] ==
            IF i > Len(s) THEN <<>>
            ELSE With(M(s, i), LAMBDA e : IF e # 0 THEN rest[e] ELSE <<s[i]>> \o rest[i + 1])
    IN  rest[1]

\* re.sub(r'\s+', ' ', s)
collapse_spaces(s) ==
    SelectSeq([i \in 1..Len(s) |-> IF isspace(s[i]) /\ i > 1 /\ isspace(s[i - 1]) THEN "" ELSE s[i]],
              LAMBDA c : c # "")

UNITS_MASS == <<Chars("ug"), <<"mu", "g">>, Chars("mg"), Chars("ml")>>
UNITS_PER_KG == <<Chars("mpk"), Chars("mg/kg"), Chars("ml/kg")>>
UNITS_MULTI == <<Chars("ug"), <<"mu", "g">>, Chars("mg"), Chars("ml"), Chars("mpk"), Chars("mg/kg")>>
UNITS_UG == <<Chars("ug"), <<"mu", "g">>>>

(***************************************************************************)
(* NameNormalizer: dose inference                                          *)
(***************************************************************************)
\* extract_dose_from_trigger_name: None or the text "<number> mpk" / "<number> ug"
MpkAt(s, i) == NumUnitEnd(s, i, <<Chars("mpk")>>, FALSE)
MgKgAt(s, i) == NumUnitEnd(s, i, <<Chars("mg/kg")>>, FALSE)
UgAt(s, i) == NumUnitEnd(s, i, UNITS_UG, TRUE)

Group1(s, i) == SubSeq(s, i, NumEnd(s, i) - 1)

extract_dose_from_trigger_name(trigger_name) ==
    With(lower(strip(trigger_name)), LAMBDA text :
    With(SearchStart(text, MpkAt), LAMBDA a :
    With(SearchStart(text, MgKgAt), LAMBDA b :
    With(SearchStart(text, UgAt), LAMBDA c :
        IF trigger_name = <<>> THEN None
        ELSE IF a # 0 THEN Str(Group1(text, a) \o Chars(" mpk"))
        ELSE IF b # 0 THEN Str(Group1(text, b) \o Chars(" mpk"))
        ELSE IF c # 0 THEN Str(Group1(text, c) \o Chars(" ug"))
        ELSE None))))

(***************************************************************************)
(* NameNormalizer: clean_trigger_name                                      *)
(***************************************************************************)
AtEnd(s, e) == e = Len(s) + 1
ALNUM == Letters \cup DIGITS

\* ^AC\d+  (re.IGNORECASE): the index after the digits, or 0
AcNumberEnd(s) ==
    With(SpanWhile(s, 3, DIGITS), LAMBDA e :
        IF startswith(lower(s), Chars("ac")) /\ e > 3 THEN e ELSE 0)

\* corrupted_patterns, each tried with re.match(pattern, s, re.IGNORECASE)
Corrupt1(s) ==   \* ^AC\d+\s+\d+\s*x\s*$
    With(AcNumberEnd(s), LAMBDA e1 : With(SpanWhile(s, e1, SPACE), LAMBDA e2 :
    With(SpanWhile(s, e2, DIGITS), LAMBDA e3 : With(SpanWhile(s, e3, SPACE), LAMBDA e4 :
        /\ e1 # 0 /\ e2 > e1 /\ e3 > e2
        /\ LitAt(lower(s), e4, <<"x">>)
        /\ AtEnd(s, SpanWhile(s, e4 + 1, SPACE))))))
Corrupt2(s) ==   \* ^AC\d+/kg$
    With(AcNumberEnd(s), LAMBDA e1 :
        e1 # 0 /\ LitAt(lower(s), e1, Chars("/kg")) /\ AtEnd(s, e1 + 3))
Corrupt3(s) ==   \* ^[A-Z]-[a-zA-Z0-9]+/[a-zA-Z0-9]+/[a-zA-Z]+$
    With(SpanWhile(s, 3, ALNUM), LAMBDA e1 : With(SpanWhile(s, e1 + 1, ALNUM), LAMBDA e2 :
    With(SpanWhile(s, e2 + 1, Letters), LAMBDA e3 :
        /\ Len(s) >= 2 /\ s[1] \in Letters /\ s[2] = "-"
        /\ e1 > 3 /\ LitAt(s, e1, <<"/">>)
        /\ e2 > e1 + 1 /\ LitAt(s, e2, <<"/">>)
        /\ e3 > e2 + 1 /\ AtEnd(s, e3))))
Corrupt4(s) ==   \* ^\d+\s*x\s*$
    With(SpanWhile(s, 1, DIGITS), LAMBDA e1 : With(SpanWhile(s, e1, SPACE), LAMBDA e2 :
        /\ Len(s) >= 1 /\ e1 > 1
        /\ LitAt(lower(s), e2, <<"x">>)
        /\ AtEnd(s, SpanWhile(s, e2 + 1, SPACE))))
Corrupt5(s) == lower(s) = Chars("/kg")   \* ^/kg$
Corrupt6(s) ==   \* ^/[a-zA-Z]+$
    /\ Len(s) >= 2 /\ s[1] = "/" /\ AtEnd(s, SpanWhile(s, 2, Letters))
Corrupt7(s) ==   \* ^\d+\s*[a-zA-Z]*\s*$
    With(SpanWhile(s, 1, DIGITS), LAMBDA e1 : With(SpanWhile(s, e1, SPACE), LAMBDA e2 :
    With(SpanWhile(s, e2, Letters), LAMBDA e3 :
        Len(s) >= 1 /\ e1 > 1 /\ AtEnd(s, SpanWhile(s, e3, SPACE)))))
is_corrupted(s) ==
    Corrupt1(s) \/ Corrupt2(s) \/ Corrupt3(s) \/ Corrupt4(s) \/ Corrupt5(s) \/ Corrupt6(s) \/ Corrupt7(s)

\* \([^)]*\)
ParenAt(s, i) ==
    With(SpanWhile(s, i + 1, {c \in Range(s) : c # ")"}), LAMBDA e :
        IF LitAt(s, i, <<"(">>) /\ e <= Len(s) THEN e + 1 ELSE 0)

\* ^\d+\s*u?[lL]\s+  (case-sensitive)
strip_volume(s) ==
    With(SpanWhile(s, 1, DIGITS), LAMBDA e1 :
    With(SpanWhile(s, e1, SPACE), LAMBDA e2 :
    With(IF LitAt(s, e2, <<"u">>) THEN e2 + 1 ELSE e2, LAMBDA e3 :
    With(SpanWhile(s, e3 + 1, SPACE), LAMBDA e4 :
        IF Len(s) >= 1 /\ e1 > 1 /\ e3 <= Len(s) /\ s[e3] \in {"l", "L"} /\ e4 > e3 + 1
        THEN SubSeq(s, e4, Len(s))
        ELSE s))))

\* dose_patterns, as matched on the lower-cased text (re.IGNORECASE)
DoseMassAt(s, i) == SpacesThen(s, i, LAMBDA t, j : NumUnitEnd(t, j, UNITS_MASS, TRUE))
DosePerKgAt(s, i) == SpacesThen(s, i, LAMBDA t, j : NumUnitEnd(t, j, UNITS_PER_KG, TRUE))
DoseMultiAt(s, i) == SpacesThen(s, i, LAMBDA t, j : MultiNumUnitEnd(t, j, UNITS_MULTI, TRUE))
DoseNaAt(s, i) == SpacesThen(s, i, LAMBDA t, j : AltEnd(t, j, <<Chars("na")>>, TRUE))

\* re.sub(pattern, '', s, flags=re.IGNORECASE): matched on lower(s), cut from s
SubRemoveIgnoreCase(s, M(_, _)) ==
    LET rest[i \in 1..(Len(s) + 1)] ==
            IF i > Len(s) THEN <<>>
            ELSE With(M(lower(s), i), LAMBDA e : IF e # 0 THEN rest[e] ELSE <<s[i]>> \o rest[i + 1])
    IN  rest[1]

remove_doses(s) ==
    With(strip(SubRemoveIgnoreCase(s, DoseMassAt)), LAMBDA c1 :
    With(strip(SubRemoveIgnoreCase(c1, DosePerKgAt)), LAMBDA c2 :
    With(strip(SubRemoveIgnoreCase(c2, DoseMultiAt)), LAMBDA c3 :
        strip(SubRemoveIgnoreCase(c3, DoseNaAt)))))

CORE_NAMES == {Chars("SALINE"), Chars("HDM"), Chars("PBS"), Chars("VEHICLE"), Chars("CONTROL"), Chars("ACSF")}

\* the fallback of clean_trigger_name when stripping left nothing
fallback_word(original_name) ==
    With(split(original_name), LAMBDA words :
    With({k \in 1..Len(words) : AcNumberEnd(words[k]) # 0 \/ upper(words[k]) \in CORE_NAMES}, LAMBDA core :
    With({k \in 1..Len(words) : /\ Len(words[k]) >= 2
                                /\ ~isdigit(words[k])
                                /\ ~endswith(words[k], Chars("/kg"))
                                /\ ~endswith(words[k], Chars("/mL"))}, LAMBDA meaningful :
        IF core # {} THEN words[SetMin(core)]
        ELSE IF meaningful # {} THEN words[SetMin(meaningful)]
        ELSE <<>>)))

\* clean_trigger_name: <<cleaned_trigger_name, extracted_dose>>
clean_trigger_name(trigger_name, has_existing_dose) ==
    With(strip(trigger_name), LAMBDA original_name :
    With(strip(SubRemove(original_name, ParenAt)), LAMBDA no_paren :
    With(strip(strip_volume(no_paren)), LAMBDA no_volume :
    With(IF has_existing_dose THEN None
         ELSE extract_dose_from_trigger_name(no_volume), LAMBDA extracted_dose :
    With(strip(collapse_spaces(remove_doses(no_volume))), LAMBDA stripped :
    With(IF stripped = <<>> THEN fallback_word(original_name) ELSE stripped, LAMBDA cleaned :
        IF trigger_name = <<>> THEN <<<<>>, None>>
        ELSE IF is_corrupted(original_name) THEN <<<<>>, None>>
        ELSE IF cleaned # <<>> /\ is_corrupted(cleaned) THEN <<<<>>, None>>
        ELSE <<cleaned, extracted_dose>>))))))

(***************************************************************************)
(* Python dicts: insertion-ordered sequences of [k, v] entries             *)
(***************************************************************************)
DictKeys(d) == [i \in 1..Len(d) |-> d[i].k]
DictHas(d, key) == \E i \in 1..Len(d) : d[i].k = key
DictGet(d, key) == d[CHOOSE i \in 1..Len(d) : d[i].k = key].v
\* d[key] = value: a new key is appended, an existing key keeps its position
DictSet(d, key, value) ==
    IF DictHas(d, key)
    THEN [i \in 1..Len(d) |-> IF d[i].k = key THEN [k |-> key, v |-> value] ELSE d[i]]
    ELSE Append(d, [k |-> key, v |-> value])

(***************************************************************************)
(* GridAccessor: a worksheet is a function from <<row, column>> to the     *)
(* value of each cell that holds one                                       *)
(***************************************************************************)
cell(ws, row, column) == IF <<row, column>> \in DOMAIN ws THEN ws[<<row, column>>] ELSE None
max_row(ws) == IF DOMAIN ws = {} THEN 1 ELSE SetMax({p[1] : p \in DOMAIN ws})
max_column(ws) == IF DOMAIN ws = {} THEN 1 ELSE SetMax({p[2] : p \in DOMAIN ws})

COLUMN_B == 2
REL_EXP_SEARCH_FIRST == 120
REL_EXP_SEARCH_LAST == 134
FULL_SCAN_ROWS == 200
MAX_SCAN_COLUMNS == 50
REL_EXP_SEARCH_ROWS == REL_EXP_SEARCH_FIRST..REL_EXP_SEARCH_LAST

(***************************************************************************)
(* AnchorLocator                                                           *)
(***************************************************************************)
\* ExcelExtractor.find_cell_with_text: <<row, col>> of the first match in
\* row-major order, or <<>> for None.  search_rows = {} stands for the
\* argument left out (the default scan range(1, min(max_row, 200))).
\* a search that walks the default rows whatever rows it is given
find_cell_any_row(ws, search_text, search_rows) ==
    With({p \in DOMAIN ws :
             /\ p[1] < (IF max_row(ws) < FULL_SCAN_ROWS THEN max_row(ws) ELSE FULL_SCAN_ROWS)
             /\ p[2] < (IF max_column(ws) < MAX_SCAN_COLUMNS THEN max_column(ws) ELSE MAX_SCAN_COLUMNS)
             /\ ws[p].t = "str"
             /\ Contains(lower(ws[p].s), lower(search_text))}, LAMBDA hits :
        IF hits = {} THEN <<>>
        ELSE CHOOSE p \in hits : \A q \in hits : p[1] < q[1] \/ (p[1] = q[1] /\ p[2] <= q[2]))

find_cell_with_text(ws, search_text, search_rows) ==
    With(IF search_rows # {} THEN search_rows
         ELSE 1..(IF max_row(ws) < FULL_SCAN_ROWS THEN max_row(ws) ELSE FULL_SCAN_ROWS) - 1, LAMBDA rows :
    With(1..(IF max_column(ws) < MAX_SCAN_COLUMNS THEN max_column(ws) ELSE MAX_SCAN_COLUMNS) - 1, LAMBDA cols :
    With({p \in (DOMAIN ws) \cap (rows \X cols) :
             /\ ws[p].t = "str"
             /\ ws[p].s # <<>>
             /\ Contains(lower(ws[p].s), lower(search_text))}, LAMBDA hits :
        IF hits = {} THEN <<>>
        ELSE CHOOSE p \in hits : \A q \in hits : p[1] < q[1] \/ (p[1] = q[1] /\ p[2] <= q[2]))))

(***************************************************************************)
(* BlockExtractor                                                          *)
(***************************************************************************)
\* ExcelExtractor.extract_column_values(ws, start_row, column, stop_on_empty,
\* max_empty_cells): the texts of the non-empty cells, in row order
RECURSIVE column_values_from(_, _, _, _, _, _)
column_values_from(ws, row, column, stop_on_empty, max_empty_cells, empty_count) ==
    IF row > max_row(ws) THEN <<>>
    ELSE With(cell(ws, row, column), LAMBDA cell_value :
             IF is_empty_or_zero(cell_value)
             THEN IF stop_on_empty /\ empty_count + 1 >= max_empty_cells THEN <<>>
                  ELSE column_values_from(ws, row + 1, column, stop_on_empty,
                                          max_empty_cells, empty_count + 1)
             ELSE <<strip(str(cell_value))>>
                  \o column_values_from(ws, row + 1, column, stop_on_empty, max_empty_cells, 0))

\* a read that stops at the first empty cell whatever the tolerance
extract_column_first_empty(ws, start_row, column, stop_on_empty, max_empty_cells) ==
    column_values_from(ws, start_row, column, stop_on_empty, 1, 0)

extract_column_values(ws, start_row, column, stop_on_empty, max_empty_cells) ==
    column_values_from(ws, start_row, column, stop_on_empty, max_empty_cells, 0)

\* the "obviously invalid target names" test of extract_targets_from_row
\* a test that takes no text for noise
is_invalid_never(text_clean) == FALSE

is_invalid_target_name(text_clean) ==
    \/ startswith(text_clean, <<"#">>)
    \/ isdigit(remove_char(remove_char(text_clean, "."), "-"))
    \/ Len(text_clean) < 2

MAX_EMPTY_TARGET_CELLS == 5

\* ExcelExtractor.extract_targets_from_row: the loop, one stride cell a step.
\* acc holds targets, target_columns, found_tissues, tissue_names_for_data and
\* tissue_columns_for_data.
RECURSIVE targets_from(_, _, _, _, _, _)
targets_from(ws, row, procedure_tissues, col_start, zero_count, acc) ==
    IF Len(acc.targets) + Len(acc.found_tissues) >= MAX_TARGETS THEN acc
    ELSE With(cell(ws, row, col_start), LAMBDA cell_value :
         With(is_empty_or_zero(cell_value), LAMBDA empty :
         With(IF empty THEN zero_count + 1 ELSE 0, LAMBDA zeros :
         With(strip(str(cell_value)), LAMBDA text_clean :
         With(classify_target_or_tissue(text_clean, procedure_tissues), LAMBDA cls :
             IF empty /\ zeros >= MAX_EMPTY_TARGET_CELLS THEN acc
             ELSE targets_from(ws, row, procedure_tissues, col_start + TARGET_COLUMN_SPACING, zeros,
                      IF is_invalid_target_name(text_clean) THEN acc
                      ELSE IF cls.kind = "tissue"
                      THEN [acc EXCEPT !.found_tissues = Append(@, cls.name),
                                       !.tissue_names_for_data = Append(@, cls.name),
                                       !.tissue_columns_for_data = Append(@, col_start)]
                      ELSE [acc EXCEPT !.targets = Append(@, cls.name),
                                       !.target_columns = Append(@, col_start)]))))))

extract_targets_from_row(ws, row, procedure_tissues) ==
    targets_from(ws, row, procedure_tissues, TARGET_START_COLUMN, 0,
                 [targets |-> <<>>, target_columns |-> <<>>, found_tissues |-> <<>>,
                  tissue_names_for_data |-> <<>>, tissue_columns_for_data |-> <<>>])

(***************************************************************************)
(* Trigger labels of the results sheet                                     *)
(***************************************************************************)
INVALID_LABELS == {Chars("x"), Chars("n/a"), Chars("blank"), Chars("none"), Chars("--"), Chars("-"), <<>>}
COMPOUND_PREFIXES == {Chars("AC"), Chars("AS"), Chars("AR"), Chars("AH")}
DOSE_UNIT_TEXTS == {Chars("mpk"), Chars("mg/kg"), Chars("ml/kg"), Chars("ug/kg")}

\* the filter of extract_relative_expression_data: TRUE for a label it keeps
is_results_trigger(trigger_str) ==
    /\ lower(trigger_str) \notin INVALID_LABELS
    /\ ~startswith(trigger_str, <<"#">>)
    /\ ~(/\ \E unit \in DOSE_UNIT_TEXTS : Contains(lower(trigger_str), unit)
         /\ ~\E prefix \in COMPOUND_PREFIXES : startswith(upper(trigger_str), prefix))
    /\ ~(/\ isdigit(remove_char(remove_char(trigger_str, "."), " "))
         /\ Len(trigger_str) <= 10
         /\ ~\E prefix \in COMPOUND_PREFIXES : startswith(trigger_str, prefix))

filter_results_triggers(raw_triggers) ==
    SelectSeq([i \in 1..Len(raw_triggers) |-> strip(raw_triggers[i])], is_results_trigger)

\* the validity check shared by _extract_trigger_target_data and
\* extract_study_metadata: TRUE for a label that is skipped
is_invalid_trigger(trigger_str) ==
    \/ lower(trigger_str) \in INVALID_LABELS
    \/ startswith(trigger_str, <<"#">>)
    \/ /\ isdigit(remove_char(remove_char(trigger_str, "."), ","))
       /\ Len(trigger_str) <= 4

\* keys written name#N
trigger_key_hash(trigger_name, trigger_name_counts) ==
    IF DictHas(trigger_name_counts, trigger_name)
    THEN trigger_name \o Chars("#") \o str_int(DictGet(trigger_name_counts, trigger_name) + 1)
    ELSE trigger_name

\* the key of one more occurrence of trigger_name: name, or name_#N
trigger_key_for(trigger_name, trigger_name_counts) ==
    IF DictHas(trigger_name_counts, trigger_name)
    THEN trigger_name \o Chars("_#") \o str_int(DictGet(trigger_name_counts, trigger_name) + 1)
    ELSE trigger_name

count_trigger(trigger_name, trigger_name_counts) ==
    IF DictHas(trigger_name_counts, trigger_name)
    THEN DictSet(trigger_name_counts, trigger_name, DictGet(trigger_name_counts, trigger_name) + 1)
    ELSE DictSet(trigger_name_counts, trigger_name, 1)

(***************************************************************************)
(* Value triples                                                           *)
(***************************************************************************)
read_values(ws, row, base_col) ==
    [rel_exp |-> cell(ws, row, base_col + 1),
     low |-> cell(ws, row, base_col + 2),
     high |-> cell(ws, row, base_col + 3)]

\* a test that takes no triple for empty
all_none_never(values) == FALSE

\* "all(v is None for v in values.values())"
all_none(values) == values.rel_exp = None /\ values.low = None /\ values.high = None

\* the inner loop of _extract_trigger_target_data: the dict target -> values
\* of one trigger row, and the indices of the targets it stored
RECURSIVE row_data_from(_, _, _, _, _, _)
row_data_from(ws, trigger_row, targets, target_columns, target_idx, acc) ==
    IF target_idx > Len(targets) THEN acc
    ELSE With(read_values(ws, trigger_row, target_columns[target_idx]), LAMBDA values :
             row_data_from(ws, trigger_row, targets, target_columns, target_idx + 1,
                 IF all_none(values) THEN acc
                 ELSE [data |-> DictSet(acc.data, targets[target_idx], values),
                       stored |-> acc.stored \cup {target_idx}]))

\* _extract_trigger_target_data: the outer loop.  acc holds triggers_data,
\* trigger_name_counts, and a log with one entry per trigger that got a key
\* (its 1-based index in the list, its key, the row read, the targets stored).
RECURSIVE trigger_data_from(_, _, _, _, _, _, _)
trigger_data_from(ws, triggers, targets, target_columns, trigger_start_row, trigger_idx, acc) ==
    IF trigger_idx > Len(triggers) THEN acc
    ELSE With(strip(triggers[trigger_idx]), LAMBDA trigger_str :
         With(trigger_key_for(trigger_str, acc.trigger_name_counts), LAMBDA trigger_key :
         With(trigger_start_row + (trigger_idx - 1), LAMBDA trigger_row :
         With(row_data_from(ws, trigger_row, targets, target_columns, 1,
                            [data |-> <<>>, stored |-> {}]), LAMBDA row :
             trigger_data_from(ws, triggers, targets, target_columns, trigger_start_row,
                 trigger_idx + 1,
                 IF is_empty_or_zero(Str(triggers[trigger_idx])) \/ is_invalid_trigger(trigger_str)
                 THEN acc
                 ELSE [triggers_data |-> DictSet(acc.triggers_data, trigger_key, row.data),
                       trigger_name_counts |-> count_trigger(trigger_str, acc.trigger_name_counts),
                       log |-> Append(acc.log, [idx |-> trigger_idx, key |-> trigger_key,
                                                name |-> trigger_str, row |-> trigger_row,
                                                stored |-> row.stored])])))))

extract_trigger_target_data(ws, triggers, targets, target_columns, trigger_start_row) ==
    trigger_data_from(ws, triggers, targets, target_columns, trigger_start_row, 1,
                      [triggers_data |-> <<>>, trigger_name_counts |-> <<>>, log |-> <<>>])

\* "{k: v for k, v in triggers_data.items() if v}"
remove_empty(triggers_data) == SelectSeq(triggers_data, LAMBDA e : e.v # <<>>)

(***************************************************************************)
(* extract_relative_expression_data (a sheet named "Compiled Indiv. & Grp.")*)
(***************************************************************************)
NoData ==
    [ok |-> FALSE, targets |-> <<>>, tissue_targets |-> <<>>, relative_expression_data |-> <<>>,
     found_tissues |-> <<>>, all_data_items |-> <<>>, trigger_start_row |-> 0,
     raw_triggers_found |-> <<>>, positional_mapping |-> FALSE,
     all_data_columns |-> <<>>, triggers |-> <<>>, log |-> <<>>]

TARGET_ROW_OFFSET == 2
TRIGGER_ROW_OFFSET == 3

Take(seq, n) == SubSeq(seq, 1, IF Len(seq) < n THEN Len(seq) ELSE n)

REL_EXP_TEXT == Chars("relative expression")

\* The result dictionary, or NoData for None.  all_data_columns, triggers and
\* log are the function's locals of the same names, kept for inspection.
extract_relative_expression_data(ws, procedure_tissues) ==
    With(find_cell_with_text(ws, REL_EXP_TEXT, REL_EXP_SEARCH_ROWS), LAMBDA rel_exp_location :
    With(rel_exp_location[1] + TARGET_ROW_OFFSET, LAMBDA target_row :
    With(extract_targets_from_row(ws, target_row, procedure_tissues), LAMBDA items :
    With(items.targets \o items.tissue_names_for_data, LAMBDA all_data_names :
    With(items.target_columns \o items.tissue_columns_for_data, LAMBDA all_data_columns :
    With(target_row + TRIGGER_ROW_OFFSET, LAMBDA trigger_start_row :
    With(Take(extract_column_values(ws, trigger_start_row, COLUMN_B, FALSE, 1),
              MAX_TRIGGERS), LAMBDA raw_triggers :
    With(filter_results_triggers(raw_triggers), LAMBDA triggers :
    With(extract_trigger_target_data(ws, triggers, all_data_names, all_data_columns,
                                     trigger_start_row), LAMBDA extracted :
        IF rel_exp_location = <<>> THEN NoData
        ELSE IF all_data_names = <<>> THEN NoData
        ELSE [ok |-> TRUE,
              targets |-> items.targets,
              tissue_targets |-> items.tissue_names_for_data,
              relative_expression_data |-> remove_empty(extracted.triggers_data),
              found_tissues |-> items.found_tissues,
              all_data_items |-> all_data_names,
              trigger_start_row |-> trigger_start_row,
              raw_triggers_found |-> raw_triggers,
              positional_mapping |-> FALSE,
              all_data_columns |-> all_data_columns,
              triggers |-> triggers,
              log |-> extracted.log])))))))))

(***************************************************************************)
(* Study metadata: doses and the trigger -> dose map                       *)
(***************************************************************************)
NO_DOSE_TEXTS == {<<>>, Chars("None"), Chars("--"), Chars("n/a"), Chars("N/A"), Chars("NA")}
SINGLE_DOSE_UNITS == <<Chars("ug"), <<"mu", "g">>, Chars("mpk"), Chars("mg/kg"), Chars("ml/kg"),
                       Chars("mg"), Chars("ml"), Chars("ng/kg"), Chars("ug/kg")>>
MULTI_DOSE_UNITS == <<Chars("mpk"), Chars("mg/kg"), Chars("ug"), <<"mu", "g">>, Chars("mg"), Chars("ml")>>

\* validate_and_standardize_dose: <<standardized_dose, is_flagged>>
validate_and_standardize_dose(dose_str) ==
    With(strip(dose_str), LAMBDA dose_clean :
    With(lower(dose_clean), LAMBDA low :
    With(Group1(low, 1), LAMBDA dose_value :
        IF dose_str = <<>> \/ dose_clean \in NO_DOSE_TEXTS THEN <<None, FALSE>>
        ELSE IF dose_clean = <<"0">> THEN <<Str(<<"0">>), FALSE>>
        ELSE IF \E k \in 1..Len(MULTI_DOSE_UNITS) :
                    AtEnd(low, MultiNumUnitEnd(low, 1, <<MULTI_DOSE_UNITS[k]>>, FALSE))
             THEN <<Str(dose_clean), FALSE>>
        ELSE IF \E k \in 1..Len(SINGLE_DOSE_UNITS) :
                    AtEnd(low, NumUnitEnd(low, 1, <<SINGLE_DOSE_UNITS[k]>>, FALSE))
             THEN <<Str(dose_value \o <<" ">>
                        \o strip(SubSeq(dose_clean, Len(dose_value) + 1, Len(dose_clean)))), FALSE>>
        ELSE IF \/ isdigit(low)
                \/ \E j \in 1..Len(low) :
                      /\ low[j] \in LowerSet
                      /\ With(SpanWhile(low, j + 1, SPACE), LAMBDA d : d <= Len(low) /\ low[d] \in DIGITS)
             THEN <<Str(dose_clean), TRUE>>
        ELSE IF \E j \in 1..Len(dose_clean) : dose_clean[j] \in DIGITS THEN <<Str(dose_clean), FALSE>>
        ELSE <<Str(dose_clean), TRUE>>)))

\* Config.DOSE_TYPES is a set: the order in which detect_dose_type visits it
\* is not fixed by the source.  An order is a sequence of its members.
DOSE_TYPES == {Chars("SQ"), Chars("IV"), Chars("IM"), Chars("intratracheal"),
               Chars("subcutaneous"), Chars("intravenous"), Chars("intramuscular")}

standard_dose_type(dose_type) ==
    With(lower(dose_type), LAMBDA dt :
        IF dt \in {Chars("sq"), Chars("subcutaneous")} THEN Str(Chars("SQ"))
        ELSE IF dt \in {Chars("iv"), Chars("intravenous")} THEN Str(Chars("IV"))
        ELSE IF dt \in {Chars("im"), Chars("intramuscular")} THEN Str(Chars("IM"))
        ELSE IF dt = Chars("intratracheal") THEN Str(Chars("Intratracheal"))
        ELSE None)

\* detect_dose_type, visiting DOSE_TYPES in the given order
detect_dose_type(text, order) ==
    With({k \in 1..Len(order) : Contains(lower(strip(text)), lower(order[k]))}, LAMBDA hits :
        IF text = <<>> \/ hits = {} THEN None
        ELSE standard_dose_type(order[SetMin(hits)]))

\* ExcelExtractor.extract_paired_columns over the trigger block of the
\* procedure sheet, given as its rows [trigger, dose]: stops at the first
\* empty trigger cell
RECURSIVE paired_from(_, _)
paired_from(rows, i) ==
    IF i > Len(rows) \/ is_empty_or_zero(rows[i].trigger) THEN <<>>
    ELSE <<[trigger |-> strip(str(rows[i].trigger)), dose |-> rows[i].dose]>> \o paired_from(rows, i + 1)
extract_paired_columns(rows) == paired_from(rows, 1)

\* the metadata filter of extract_study_metadata
filter_metadata_triggers(pairs) == SelectSeq(pairs, LAMBDA p : ~is_invalid_trigger(strip(p.trigger)))

\* _create_trigger_dose_map: one entry per trigger, keyed name or name_#N
RECURSIVE dose_map_from(_, _, _, _)
dose_map_from(pairs, order, i, acc) ==
    IF i > Len(pairs) THEN acc.trigger_dose_map
    ELSE With(strip(pairs[i].trigger), LAMBDA trigger_name :
         With(IF pairs[i].dose = None THEN <<>> ELSE str(pairs[i].dose), LAMBDA dose_str :
         With(validate_and_standardize_dose(dose_str), LAMBDA standardized :
         With(extract_dose_from_trigger_name(trigger_name), LAMBDA extracted_dose :
         With(IF standardized[1] = None /\ extracted_dose # None
              THEN validate_and_standardize_dose(extracted_dose.s)
              ELSE standardized, LAMBDA final :
         With(trigger_key_for(trigger_name, acc.trigger_name_counts), LAMBDA trigger_key :
             dose_map_from(pairs, order, i + 1,
                 [trigger_dose_map |->
                      DictSet(acc.trigger_dose_map, trigger_key,
                              [dose |-> final[1],
                               dose_type |-> detect_dose_type(dose_str, order),
                               dose_flagged |-> final[2],
                               original_name |-> trigger_name]),
                  trigger_name_counts |-> count_trigger(trigger_name, acc.trigger_name_counts)])))))))

create_trigger_dose_map(pairs, order) ==
    dose_map_from(pairs, order, 1, [trigger_dose_map |-> <<>>, trigger_name_counts |-> <<>>])

\* the trigger part of extract_study_metadata
extract_trigger_dose_map(rows, order) ==
    create_trigger_dose_map(filter_metadata_triggers(extract_paired_columns(rows)), order)

(***************************************************************************)
(* Reconciler: the positional fallback                                     *)
(***************************************************************************)
EXTRA_FALLBACK_ROWS == 10

\* the columns _extract_relative_expression_with_metadata_triggers assigns:
\* one stride step per name, targets first, from TARGET_START_COLUMN
fallback_columns(existing_targets, existing_tissue_targets) ==
    [j \in 1..(Len(existing_targets) + Len(existing_tissue_targets)) |->
        TARGET_START_COLUMN + (j - 1) * TARGET_COLUMN_SPACING]

\* data_rows_with_values: the scanned rows holding a value, in row order
\* a scan that keeps the rows without data as well
data_rows_unfiltered(ws, all_data_columns, trigger_start_row, n_metadata_triggers) ==
    [i \in 1..(IF max_row(ws) < trigger_start_row THEN 0 ELSE max_row(ws) - trigger_start_row + 1) |->
        [row |-> trigger_start_row + i - 1,
         trigger_cell |-> cell(ws, trigger_start_row + i - 1, COLUMN_B),
         data_values |-> [j \in 1..Len(all_data_columns) |->
                             read_values(ws, trigger_start_row + i - 1, all_data_columns[j])]]]

data_rows_with_values(ws, all_data_columns, trigger_start_row, n_metadata_triggers) ==
    With(n_metadata_triggers + EXTRA_FALLBACK_ROWS, LAMBDA wanted :
    With(IF wanted < MAX_TRIGGERS THEN wanted ELSE MAX_TRIGGERS, LAMBDA max_trigger_rows :
    With(SelectSeq([o \in 1..max_trigger_rows |-> o - 1],
                   LAMBDA o : /\ trigger_start_row + o <= max_row(ws)
                              /\ \E j \in 1..Len(all_data_columns) :
                                    ~all_none(read_values(ws, trigger_start_row + o,
                                                          all_data_columns[j]))), LAMBDA kept :
        [i \in 1..Len(kept) |->
            [row |-> trigger_start_row + kept[i],
             trigger_cell |-> cell(ws, trigger_start_row + kept[i], COLUMN_B),
             data_values |-> [j \in 1..Len(all_data_columns) |->
                                 read_values(ws, trigger_start_row + kept[i], all_data_columns[j])]]])))

\* trigger_data of one mapped row: the dict target_name -> values
RECURSIVE mapped_row_from(_, _, _, _)
mapped_row_from(all_data_names, data_values, j, acc) ==
    IF j > Len(all_data_names) THEN acc
    ELSE mapped_row_from(all_data_names, data_values, j + 1,
             IF j <= Len(data_values) /\ ~all_none(data_values[j])
             THEN DictSet(acc, all_data_names[j], data_values[j])
             ELSE acc)

RECURSIVE positional_from(_, _, _, _, _)
positional_from(metadata_triggers, rows, all_data_names, i, acc) ==
    IF i > Len(metadata_triggers) THEN acc
    ELSE With(mapped_row_from(all_data_names, rows[i].data_values, 1, <<>>), LAMBDA trigger_data :
             positional_from(metadata_triggers, rows, all_data_names, i + 1,
                 IF i <= Len(rows) /\ trigger_data # <<>>
                 THEN [triggers_data |-> DictSet(acc.triggers_data, metadata_triggers[i], trigger_data),
                       log |-> Append(acc.log, [idx |-> i, key |-> metadata_triggers[i],
                                                name |-> metadata_triggers[i],
                                                row |-> rows[i].row,
                                                stored |-> {j \in 1..Len(all_data_names) :
                                                              ~all_none(rows[i].data_values[j])}])]
                 ELSE acc))

\* _extract_relative_expression_with_metadata_triggers: the result dictionary,
\* or NoData for None
extract_with_metadata_triggers(ws, metadata_triggers, trigger_start_row, existing_targets, existing_tissue_targets) ==
    With(existing_targets \o existing_tissue_targets, LAMBDA all_data_names :
    With(fallback_columns(existing_targets, existing_tissue_targets), LAMBDA all_data_columns :
    With(data_rows_with_values(ws, all_data_columns, trigger_start_row,
                               Len(metadata_triggers)), LAMBDA rows :
    With(positional_from(metadata_triggers, rows, all_data_names, 1,
                         [triggers_data |-> <<>>, log |-> <<>>]), LAMBDA mapped :
        IF Len(mapped.triggers_data) > 0
        THEN [ok |-> TRUE,
              targets |-> existing_targets,
              tissue_targets |-> existing_tissue_targets,
              relative_expression_data |-> mapped.triggers_data,
              found_tissues |-> <<>>,
              all_data_items |-> all_data_names,
              trigger_start_row |-> 0,
              raw_triggers_found |-> <<>>,
              positional_mapping |-> TRUE,
              all_data_columns |-> all_data_columns,
              triggers |-> metadata_triggers,
              log |-> mapped.log]
        ELSE NoData))))

\* process_study_folder, from "if rel_exp_data:" on: the result that is kept
\* a reconciliation that adopts every fallback result
reconcile_always(ws, rel_exp_data, trigger_dose_map) ==
    With(extract_with_metadata_triggers(ws, DictKeys(trigger_dose_map), rel_exp_data.trigger_start_row,
                                        rel_exp_data.targets, rel_exp_data.tissue_targets), LAMBDA enhanced :
        IF enhanced.ok THEN enhanced ELSE rel_exp_data)

reconcile(ws, rel_exp_data, trigger_dose_map) ==
    With(DictKeys(rel_exp_data.relative_expression_data), LAMBDA results_triggers :
    With(DictKeys(trigger_dose_map), LAMBDA metadata_triggers :
    With(extract_with_metadata_triggers(ws, metadata_triggers, rel_exp_data.trigger_start_row,
                                        rel_exp_data.targets, rel_exp_data.tissue_targets), LAMBDA enhanced :
        IF /\ Len(metadata_triggers) > Len(results_triggers)
           /\ enhanced.ok
           /\ Len(enhanced.relative_expression_data) > Len(results_triggers)
        THEN enhanced
        ELSE rel_exp_data)))

(***************************************************************************)
(* ObservationAssembler: the CSV rows of one study                         *)
(***************************************************************************)
\* the characters of the model's texts in code-point order (Python compares
\* strings by code point)
CODE_POINTS ==
    Chars(" !#$%&'()*+,-./0123456789:;<=>?@ABCDEFGHIJKLMNOPQRSTUVWXYZ[]^_abcdefghijklmnopqrstuvwxyz{|}~")
        \o <<"mu">>
ord(c) == IndexOf(c, CODE_POINTS)

\* a < b for two strings
RECURSIVE string_less(_, _)
string_less(a, b) ==
    IF b = <<>> THEN FALSE
    ELSE IF a = <<>> THEN TRUE
    ELSE IF Head(a) = Head(b) THEN string_less(Tail(a), Tail(b))
    ELSE ord(Head(a)) < ord(Head(b))

\* int(digits)
RECURSIVE int_of(_)
int_of(digits) ==
    IF digits = <<>> THEN 0
    ELSE 10 * int_of(SubSeq(digits, 1, Len(digits) - 1))
             + (IndexOf(digits[Len(digits)], Chars("0123456789")) - 1)

\* convert_to_numeric, for None, whole numbers and texts
convert_to_numeric(value) ==
    IF value = None THEN <<>>
    ELSE IF value.t = "num" THEN str_int(value.n) \o Chars(".0000")
    ELSE IF isdigit(strip(value.s)) THEN str_int(int_of(strip(value.s))) \o Chars(".0000")
    ELSE strip(value.s)

\* the study fields the rows repeat unchanged
STUDY_NAME == Chars("S")
STUDY_CODE == <<>>
SCREENING_MODEL == <<>>
TIMEPOINT == <<>>

\* _extract_study_info_for_csv: the "tissue" entry
study_tissue(tissues, relative_expression) ==
    IF tissues # <<>> THEN tissues[1]
    ELSE IF relative_expression.found_tissues # <<>> THEN relative_expression.found_tissues[1]
    ELSE <<>>

\* truth value of a Python str-or-None
truthy(v) == v.t = "str" /\ v.s # <<>>

\* _create_csv_row
create_csv_row(tissue, trigger, trigger_info, target, item_type, values) ==
    With(trigger_info.dose, LAMBDA existing_dose :
    With(truthy(existing_dose) /\ strip(existing_dose.s) # <<>>, LAMBDA has_existing_dose :
    With(clean_trigger_name(trigger, has_existing_dose), LAMBDA cleaned :
    With(IF ~has_existing_dose /\ truthy(cleaned[2]) THEN cleaned[2] ELSE existing_dose, LAMBDA final_dose :
        [study_name |-> STUDY_NAME,
         study_code |-> STUDY_CODE,
         screening_model |-> SCREENING_MODEL,
         gene_target |-> IF item_type = "tissue_target" THEN <<>> ELSE target,
         item_type |-> item_type,
         trigger |-> cleaned[1],
         dose |-> str(final_dose),
         dose_type |-> str(trigger_info.dose_type),
         timepoint |-> TIMEPOINT,
         tissue |-> IF item_type = "tissue_target" THEN target ELSE tissue,
         avg_rel_exp |-> convert_to_numeric(values.rel_exp),
         avg_rel_exp_lsd |-> convert_to_numeric(values.low),
         avg_rel_exp_hsd |-> convert_to_numeric(values.high)]))))

\* trigger_key.rsplit("_#", 1)[0]
original_trigger_name(trigger_key) ==
    With({p \in 1..Len(trigger_key) : LitAt(trigger_key, p, Chars("_#"))}, LAMBDA at :
        IF at = {} THEN trigger_key ELSE SubSeq(trigger_key, 1, SetMax(at) - 1))

\* the entry used when the metadata has none for the trigger
EMPTY_TRIGGER_INFO ==
    [dose |-> Str(<<>>), dose_type |-> Str(<<>>), dose_flagged |-> FALSE, original_name |-> <<>>]

\* a matching that tries the original name before the identical key
match_trigger_info_name_first(trigger_dose_map, trigger_key) ==
    With(original_trigger_name(trigger_key), LAMBDA trigger_name :
    With({i \in 1..Len(trigger_dose_map) :
             trigger_dose_map[i].v.original_name = trigger_name}, LAMBDA same_name :
    With(IF same_name # {} THEN trigger_dose_map[SetMin(same_name)].v
         ELSE IF DictHas(trigger_dose_map, trigger_key) THEN DictGet(trigger_dose_map, trigger_key)
         ELSE IF DictHas(trigger_dose_map, trigger_name) THEN DictGet(trigger_dose_map, trigger_name)
         ELSE EMPTY_TRIGGER_INFO, LAMBDA found :
    With(extract_dose_from_trigger_name(trigger_name), LAMBDA extracted_dose :
        IF truthy(extracted_dose) /\ ~truthy(found.dose)
        THEN [dose |-> extracted_dose, dose_type |-> found.dose_type]
        ELSE [dose |-> found.dose, dose_type |-> found.dose_type]))))

\* the metadata entry _process_study_for_csv picks for a results trigger key
match_trigger_info(trigger_dose_map, trigger_key) ==
    With(original_trigger_name(trigger_key), LAMBDA trigger_name :
    With({i \in 1..Len(trigger_dose_map) :
             trigger_dose_map[i].v.original_name = trigger_name}, LAMBDA same_name :
    With(IF DictHas(trigger_dose_map, trigger_key) THEN DictGet(trigger_dose_map, trigger_key)
         ELSE IF same_name # {} THEN trigger_dose_map[SetMin(same_name)].v
         ELSE IF DictHas(trigger_dose_map, trigger_name) THEN DictGet(trigger_dose_map, trigger_name)
         ELSE EMPTY_TRIGGER_INFO, LAMBDA found :
    With(extract_dose_from_trigger_name(trigger_name), LAMBDA extracted_dose :
        IF truthy(extracted_dose) /\ ~truthy(found.dose)
        THEN [dose |-> extracted_dose, dose_type |-> found.dose_type]
        ELSE [dose |-> found.dose, dose_type |-> found.dose_type]))))

\* a typing that takes every item for a gene target
item_type_always_gene(item_name, gene_targets, tissue_targets) == "gene_target"

item_type_of(item_name, gene_targets, tissue_targets) ==
    IF item_name \in Range(gene_targets) THEN "gene_target"
    ELSE IF item_name \in Range(tissue_targets) THEN "tissue_target"
    ELSE "unknown"

\* the rows of one trigger key, in the order of its items
trigger_rows(tissue, trigger_dose_map, relative_expression, entry) ==
    With(original_trigger_name(entry.k), LAMBDA trigger_name :
    With(match_trigger_info(trigger_dose_map, entry.k), LAMBDA trigger_info :
        SelectSeq([j \in 1..Len(entry.v) |->
                      create_csv_row(tissue, trigger_name, trigger_info, entry.v[j].k,
                                     item_type_of(entry.v[j].k, relative_expression.targets,
                                                  relative_expression.tissue_targets),
                                     entry.v[j].v)],
                  LAMBDA row : row.trigger # <<>>)))

RECURSIVE study_rows_from(_, _, _, _)
study_rows_from(tissue, trigger_dose_map, relative_expression, i) ==
    IF i > Len(relative_expression.relative_expression_data) THEN <<>>
    ELSE trigger_rows(tissue, trigger_dose_map, relative_expression,
                      relative_expression.relative_expression_data[i])
             \o study_rows_from(tissue, trigger_dose_map, relative_expression, i + 1)

\* sort_key(row) < sort_key(other)
or_zzz(s) == IF s = <<>> THEN Chars("ZZZ") ELSE s
sort_key(row) == <<or_zzz(row.tissue), or_zzz(Chars(row.item_type)), or_zzz(row.gene_target)>>
key_less(a, b) ==
    \/ string_less(a[1], b[1])
    \/ a[1] = b[1] /\ string_less(a[2], b[2])
    \/ a[1] = b[1] /\ a[2] = b[2] /\ string_less(a[3], b[3])

\* list.sort(key=sort_key): stable
RECURSIVE insert_sorted(_, _)
insert_sorted(sorted, row) ==
    IF sorted = <<>> THEN <<row>>
    ELSE IF key_less(sort_key(row), sort_key(sorted[Len(sorted)]))
         THEN Append(insert_sorted(SubSeq(sorted, 1, Len(sorted) - 1), row), sorted[Len(sorted)])
         ELSE Append(sorted, row)


RECURSIVE sort_rows(_)
sort_rows(rows) ==
    IF rows = <<>> THEN <<>>
    ELSE insert_sorted(sort_rows(SubSeq(rows, 1, Len(rows) - 1)), rows[Len(rows)])

\* _process_study_for_csv: the rows the study adds to the CSV
process_study_for_csv(tissues, trigger_dose_map, relative_expression) ==
    IF ~relative_expression.ok THEN <<>>
    ELSE IF relative_expression.relative_expression_data = <<>> THEN <<>>
    ELSE sort_rows(study_rows_from(study_tissue(tissues, relative_expression),
                                   trigger_dose_map, relative_expression, 1))

(***************************************************************************)
(* State                                                                   *)
(***************************************************************************)
VARIABLES
    c_text,        \* classifier run: the label
    c_tissues,     \* classifier run: the declared tissue list
    c_result,      \* classifier run: Pending or the classification
    n_trigger,     \* cleaning run: the raw trigger label
    n_has_dose,    \* cleaning run: has_existing_dose
    n_result,      \* cleaning run: <<>> or <<cleaned_trigger_name, extracted_dose>>
    a_ws,          \* anchor search: the worksheet
    a_text,        \* anchor search: search_text
    a_rows,        \* anchor search: search_rows, {} when the argument is left out
    a_result,      \* anchor search: [done, at], at = <<row, col>> or <<>> for None
    v_ws,          \* column read: the worksheet
    v_start,       \* column read: start_row
    v_k,           \* column read: max_empty_cells
    v_result,      \* column read: [done, values]
    w_pc,          \* workbook calls: "idle", "call", "loaded" or "returned"
    w_calls,       \* workbook calls: the calls of safe_workbook_operation begun so far
    w_open,        \* workbook calls: the workbooks opened and not closed, by call number
    w_results,     \* workbook calls: what each finished call returned
    ws,            \* study: the results worksheet
    trigger_rows_meta, \* study: the trigger block of the procedure sheet, rows [trigger, dose]
    tissues,       \* study: the tissues the procedure sheet declares
    dose_type_order,   \* study: the order in which this run visits Config.DOSE_TYPES
    pc,            \* study: "idle", "start", "processed" or "exported"
    trigger_dose_map,  \* study_data["trigger_dose_map"]
    direct,        \* the result of extract_relative_expression_data
    relative_expression, \* study_data["relative_expression"]
    csv_rows       \* the rows written for the study

classifyVars == <<c_text, c_tissues, c_result>>
cleanVars == <<n_trigger, n_has_dose, n_result>>
anchorVars == <<a_ws, a_text, a_rows, a_result>>
columnVars == <<v_ws, v_start, v_k, v_result>>
workbookVars == <<w_pc, w_calls, w_open, w_results>>
inputVars == <<ws, trigger_rows_meta, tissues, dose_type_order>>
studyVars == <<ws, trigger_rows_meta, tissues, dose_type_order, pc, trigger_dose_map, direct,
               relative_expression, csv_rows>>
vars == <<c_text, c_tissues, c_result, n_trigger, n_has_dose, n_result, a_ws, a_text, a_rows,
          a_result, v_ws, v_start, v_k, v_result, w_pc, w_calls, w_open, w_results, ws, trigger_rows_meta, tissues, dose_type_order, pc, trigger_dose_map, direct,
          relative_expression, csv_rows>>

Pending == [kind |-> "pending", name |-> <<>>]

(***************************************************************************)
(* Classifier runs                                                         *)
(***************************************************************************)
ClassifyLabels == {
    Chars("ACVR2B"), Chars("acvr2b"), Chars("rACVR2B"), Chars("mActRIIB"), Chars("HDAC11"),
    Chars("xACVR2B"), Chars("GeneA"), Chars("liver"), Chars("Liver"), Chars(" liver "),
    Chars("APOE4 liver"), Chars("iWAT"), Chars("Cer"), Chars("rlung"), Chars("Liver-L"),
    Chars("foo esk1"), Chars("my trigger"), Chars("Gene B"), Chars("ACVR2B liver") }

DeclaredLists == {
    <<>>, <<Chars("Liver-L")>>, <<Chars("Esk-1")>>, <<Chars("ACVR2B")>>,
    <<Chars("lung"), Chars("GeneA")>> }

IdleClassify == c_text = <<>> /\ c_tissues = <<>> /\ c_result = Pending
IdleClean == n_trigger = <<>> /\ n_has_dose = FALSE /\ n_result = <<>>
NotSearched == [done |-> FALSE, at |-> <<>>]
IdleAnchor == a_ws = <<>> /\ a_text = <<>> /\ a_rows = {} /\ a_result = NotSearched
NotRead == [done |-> FALSE, values |-> <<>>]
IdleColumn == v_ws = <<>> /\ v_start = 0 /\ v_k = 0 /\ v_result = NotRead
IdleWorkbook == w_pc = "idle" /\ w_calls = 0 /\ w_open = {} /\ w_results = <<>>
IdleStudy ==
    /\ ws = <<>> /\ trigger_rows_meta = <<>> /\ tissues = <<>> /\ dose_type_order = <<>>
    /\ pc = "idle" /\ trigger_dose_map = <<>> /\ direct = NoData
    /\ relative_expression = NoData /\ csv_rows = <<>>

InitClassify ==
    /\ c_text \in ClassifyLabels
    /\ c_tissues \in DeclaredLists
    /\ c_result = Pending
    /\ IdleClean
    /\ IdleAnchor /\ IdleColumn /\ IdleWorkbook
    /\ IdleStudy

Classify ==
    /\ c_result = Pending
    /\ c_text # <<>>
    /\ c_result' = classify_target_or_tissue(c_text, c_tissues)
    /\ UNCHANGED <<c_text, c_tissues, cleanVars, anchorVars, columnVars, workbookVars, studyVars>>

NextClassify == Classify

SpecClassify == InitClassify /\ [][NextClassify]_vars

(***************************************************************************)
(* Cleaning runs                                                           *)
(***************************************************************************)
CleanLabels == {
    Chars("250uL  HDM 5ug (D1, 3)"), Chars("200uL  Saline NA (D1, 3)"),
    Chars("AC005120 2x5mpk (D1, 3)"), Chars("AC00008 + saline"), Chars("PBS"), Chars("ACSF"),
    Chars("Vehicle"), Chars("AC006365 4 x"), Chars("AC007163/kg"), Chars("B-hIL11/hIL11RA/mL"),
    Chars("4 x"), Chars("/kg"), Chars("/mL"), Chars("123"), Chars("   "), Chars("AC123456"),
    Chars("CompoundX 5mpk (D1,3)"), Chars("Saline"), Chars("HDM"), Chars("Saline_#2"),
    Chars("AC1 10 mg/kg"), Chars("AC2 2.5mpk SQ"), Chars("AC3 2 x 10 mg/kg"), Chars("123 mg"),
    Chars("HDM 250 ug"), Chars("AC4 3mg + AC5 1mg"), Chars("(D1) 5 mpk"), Chars("AC7 12.5 ug (D3)"),
    Chars("100 uL PBS"), Chars("Drug 5 ml/kg"), Chars("AC9 5mpk 2x3mpk NA"), Chars("12.5"),
    Chars("5 ug"), Chars("HDM 10 mg/kg") }

InitClean ==
    /\ n_trigger \in CleanLabels
    /\ n_has_dose \in BOOLEAN
    /\ n_result = <<>>
    /\ IdleClassify
    /\ IdleAnchor /\ IdleColumn /\ IdleWorkbook
    /\ IdleStudy

Clean ==
    /\ n_result = <<>>
    /\ n_trigger # <<>>
    /\ n_result' = clean_trigger_name(n_trigger, n_has_dose)
    /\ UNCHANGED <<n_trigger, n_has_dose, classifyVars, anchorVars, columnVars, workbookVars,
                   studyVars>>

NextClean == Clean

SpecClean == InitClean /\ [][NextClean]_vars

(***************************************************************************)
(* Anchor searches: ExcelExtractor.find_cell_with_text on small sheets     *)
(***************************************************************************)
AnchorCols == 3    \* columns of a generated sheet

\* the two rows of a generated sheet: at the top, inside the results window,
\* and just outside it
AnchorRowPairs == {<<1, 2>>, <<120, 134>>, <<119, 135>>}
AnchorCells == {None, Num(7), Str(Chars("The Relative EXPRESSION by Groups"))}
AnchorTexts == {Chars("relative expression"), Chars("Relative Expression")}

\* the sheet holding kinds[i][c] in column c of the i-th row of the pair
AnchorSheet(pair, kinds) ==
    [p \in {q \in {pair[1], pair[2]} \X (1..AnchorCols) :
               kinds[IF q[1] = pair[1] THEN 1 ELSE 2][q[2]] # None} |->
        kinds[IF p[1] = pair[1] THEN 1 ELSE 2][p[2]]]

InitAnchorSearch ==
    /\ \E pair \in AnchorRowPairs, kinds \in [1..2 -> [1..AnchorCols -> AnchorCells]] :
          a_ws = AnchorSheet(pair, kinds)
    /\ a_text \in AnchorTexts
    /\ a_rows \in {{}, REL_EXP_SEARCH_ROWS}
    /\ a_result = NotSearched
    /\ IdleClassify
    /\ IdleClean /\ IdleColumn /\ IdleWorkbook
    /\ IdleStudy

FindCell ==
    /\ ~a_result.done
    /\ a_text # <<>>
    /\ a_result' = [done |-> TRUE, at |-> find_cell_with_text(a_ws, a_text, a_rows)]
    /\ UNCHANGED <<a_ws, a_text, a_rows, classifyVars, cleanVars, columnVars, workbookVars, studyVars>>

NextAnchor == FindCell

SpecAnchor == InitAnchorSearch /\ [][NextAnchor]_vars

(***************************************************************************)
(* Column reads: ExcelExtractor.extract_column_values, stopping on empties *)
(***************************************************************************)
ColumnRows == 6      \* rows of a generated column
MaxTolerance == 3    \* the largest max_empty_cells of a read

ColumnKinds == {"none", "zero", "blank", "text"}
RowDigits == Chars("123456789")

\* the cell of a kind on row r; a text tells its row and carries spaces
ColumnCell(kind, r) ==
    IF kind = "zero" THEN Num(0)
    ELSE IF kind = "blank" THEN Str(Chars("  "))
    ELSE IF kind = "text" THEN Str(<<" ", "r", RowDigits[r], " ">>)
    ELSE None

\* column B holding kinds[r] on row r
ColumnSheet(kinds) ==
    [p \in {<<r, COLUMN_B>> : r \in {r \in DOMAIN kinds : kinds[r] # "none"}} |->
        ColumnCell(kinds[p[1]], p[1])]

InitColumnRead ==
    /\ \E kinds \in [1..ColumnRows -> ColumnKinds] : v_ws = ColumnSheet(kinds)
    /\ v_start \in {1, 2}
    /\ v_k \in 1..MaxTolerance
    /\ v_result = NotRead
    /\ IdleClassify
    /\ IdleClean
    /\ IdleAnchor /\ IdleWorkbook
    /\ IdleStudy

ReadColumn ==
    /\ ~v_result.done
    /\ v_k > 0
    /\ v_result' = [done |-> TRUE,
                    values |-> extract_column_values(v_ws, v_start, COLUMN_B, TRUE, v_k)]
    /\ UNCHANGED <<v_ws, v_start, v_k, classifyVars, cleanVars, anchorVars, workbookVars, studyVars>>

NextColumn == ReadColumn

SpecColumn == InitColumnRead /\ [][NextColumn]_vars

(***************************************************************************)
(* Workbook calls: safe_workbook_operation, one call after another         *)
(***************************************************************************)
MaxCalls == 4    \* calls of safe_workbook_operation in a run

\* what an operation function may return: a result, or None
OperationResults == {"data", "None"}

InitWorkbookCalls ==
    /\ w_pc = "returned" /\ w_calls = 0 /\ w_open = {} /\ w_results = <<>>
    /\ IdleClassify
    /\ IdleClean
    /\ IdleAnchor /\ IdleColumn
    /\ IdleStudy

\* safe_workbook_operation is entered
BeginCall ==
    /\ w_pc = "returned" /\ w_calls < MaxCalls
    /\ w_calls' = w_calls + 1
    /\ w_pc' = "call"
    /\ UNCHANGED <<w_open, w_results, classifyVars, cleanVars, anchorVars, columnVars, studyVars>>

\* load_workbook returns the workbook
LoadWorkbook ==
    /\ w_pc = "call"
    /\ w_open' = w_open \cup {w_calls}
    /\ w_pc' = "loaded"
    /\ UNCHANGED <<w_calls, w_results, classifyVars, cleanVars, anchorVars, columnVars, studyVars>>

\* load_workbook raises: the except branch returns None
LoadRaises ==
    /\ w_pc = "call"
    /\ w_results' = Append(w_results, "None")
    /\ w_pc' = "returned"
    /\ UNCHANGED <<w_calls, w_open, classifyVars, cleanVars, anchorVars, columnVars, studyVars>>

\* operation_func returns: wb.close(), then the result is returned
OperationReturns ==
    /\ w_pc = "loaded"
    /\ \E result \in OperationResults : w_results' = Append(w_results, result)
    /\ w_open' = w_open \ {w_calls}
    /\ w_pc' = "returned"
    /\ UNCHANGED <<w_calls, classifyVars, cleanVars, anchorVars, columnVars, studyVars>>

\* operation_func raises: control leaves the try block before wb.close(),
\* and the except branch returns None
OperationRaises ==
    /\ w_pc = "loaded"
    /\ w_results' = Append(w_results, "None")
    /\ w_pc' = "returned"
    /\ UNCHANGED <<w_calls, w_open, classifyVars, cleanVars, anchorVars, columnVars, studyVars>>

NextWorkbook == BeginCall \/ LoadWorkbook \/ LoadRaises \/ OperationReturns \/ OperationRaises

SpecWorkbook == InitWorkbookCalls /\ [][NextWorkbook]_vars

(***************************************************************************)
(* Study runs: process_study_folder, then the CSV export                   *)
(***************************************************************************)
NumSlots == 3      \* item cells of a generated item row
NumRows == 3       \* trigger rows of a generated grid

HEADER_TEXT == Chars("Relative Expression by Groups")
HeaderRows == {125}

item_column(j) == TARGET_START_COLUMN + (j - 1) * TARGET_COLUMN_SPACING
label_row(hdr, i) == hdr + TARGET_ROW_OFFSET + TRIGGER_ROW_OFFSET + (i - 1)

\* A results sheet: the header in column A of row hdr, the item cells two
\* rows below on the stride, the labels in column B from three rows below
\* the items, and a number in every value cell <<i, j, k>> of cells (the
\* k-th value column of item j on label row i).  A None item or label is an
\* empty cell.  Every number is distinct and tells its cell.
Grid(hdr, items, labels, cells) ==
    LET item_at == {<<hdr + TARGET_ROW_OFFSET, item_column(j)>> :
                        j \in {j \in 1..Len(items) : items[j] # None}}
        label_at == {<<label_row(hdr, i), COLUMN_B>> :
                        i \in {i \in 1..Len(labels) : labels[i] # None}}
        value_at == {<<label_row(hdr, c[1]), item_column(c[2]) + c[3]>> : c \in cells}
    IN  [p \in {<<hdr, 1>>} \cup item_at \cup label_at \cup value_at |->
            IF p = <<hdr, 1>> THEN Str(HEADER_TEXT)
            ELSE IF p \in item_at THEN items[((p[2] - TARGET_START_COLUMN) \div TARGET_COLUMN_SPACING) + 1]
            ELSE IF p \in label_at THEN labels[p[1] - label_row(hdr, 1) + 1]
            ELSE Num(p[1] * 100 + p[2])]

AllCells(rows, slots) == (1..rows) \X (1..slots) \X (1..3)

\* the value cells left empty in a generated grid: none, one whole row, the
\* triple of one item on one row, or the first value of that triple
Holes(rows, slots) ==
    {{}} \cup {{c \in AllCells(rows, slots) : c[1] = i} : i \in 1..rows}
         \cup {{<<i, 1, k>> : k \in 1..3} : i \in 1..rows}
         \cup {{<<i, 1, 1>>} : i \in 1..rows}

ItemCells == {None, Str(Chars("GeneA")), Str(Chars("liver")), Str(Chars("#N/A"))}
GapLabelCells == {None, Str(Chars("Saline")), Str(Chars("x"))}
NamedLabelCells == {Str(Chars("Saline")), Str(Chars("HDM")), Str(Chars("x")),
                    Str(Chars("AC005120 2x5mpk (D1, 3)"))}
ItemRows == {<<Str(Chars("GeneA")), Str(Chars("GeneB"))>>,
             <<Str(Chars("GeneA")), Str(Chars("liver"))>>,
             <<Str(Chars("GeneA")), Str(Chars("#N/A")), Str(Chars("liver"))>>}

Meta(trigger, dose) == [trigger |-> trigger, dose |-> dose]
MetaLists == {
    <<>>,
    <<Meta(Str(Chars("Saline")), Str(Chars("1 mpk")))>>,
    <<Meta(Str(Chars("HDM")), Str(Chars("1 mpk"))), Meta(Str(Chars("Saline")), Str(Chars("2mg/kg SQ")))>>,
    <<Meta(Str(Chars("Saline")), Str(Chars("1 mpk"))), Meta(Str(Chars("HDM")), Str(Chars("2 mpk"))),
      Meta(Str(Chars("Saline")), Str(Chars("3 mpk")))>>,
    <<Meta(Str(Chars("AC005120 2x5mpk (D1, 3)")), None), Meta(Str(Chars("x")), Str(Chars("7 mpk"))),
      Meta(Str(Chars("Vehicle")), None), Meta(Str(Chars("HDM")), Str(Chars("4 ug IV/IM")))>> }

DOSE_TYPE_ORDERS == {
    <<Chars("SQ"), Chars("IV"), Chars("IM"), Chars("intratracheal"), Chars("subcutaneous"),
      Chars("intravenous"), Chars("intramuscular")>>,
    <<Chars("intramuscular"), Chars("intravenous"), Chars("subcutaneous"), Chars("intratracheal"),
      Chars("IM"), Chars("IV"), Chars("SQ")>> }
FIRST_ORDER == CHOOSE o \in DOSE_TYPE_ORDERS : o[1] = Chars("SQ")

\* the worksheet of the documented example
ExampleGrid ==
    Grid(125, <<Str(Chars("GeneA")), Str(Chars("liver"))>>,
         <<Str(Chars("CompoundX 5mpk (D1,3)")), Str(Chars("Saline"))>>,
         {<<1, 1, 1>>, <<1, 1, 2>>, <<1, 1, 3>>, <<2, 1, 1>>, <<2, 1, 2>>, <<2, 1, 3>>})

StartStudy ==
    /\ pc = "start" /\ trigger_dose_map = <<>> /\ direct = NoData
    /\ relative_expression = NoData /\ csv_rows = <<>>
    /\ IdleClassify /\ IdleClean /\ IdleAnchor /\ IdleColumn /\ IdleWorkbook

\* item rows of every kind under two labelled rows with data
InitItems ==
    /\ \E hdr \in HeaderRows, items \in [1..NumSlots -> ItemCells] :
          ws = Grid(hdr, items, <<Str(Chars("Saline")), Str(Chars("HDM"))>>, AllCells(2, NumSlots))
    /\ trigger_rows_meta = <<>>
    /\ tissues \in {<<>>, <<Chars("liver")>>}
    /\ dose_type_order = FIRST_ORDER

\* label columns of every kind, with and without holes in the data
InitLabels ==
    /\ \E hdr \in HeaderRows, labels \in [1..NumRows -> GapLabelCells], hole \in Holes(NumRows, 2) :
          ws = Grid(hdr, <<Str(Chars("GeneA")), Str(Chars("GeneB"))>>, labels,
                    AllCells(NumRows, 2) \ hole)
    /\ trigger_rows_meta = <<>>
    /\ tissues = <<Chars("liver")>>
    /\ dose_type_order = FIRST_ORDER

\* results labels against metadata trigger lists
InitMetadata ==
    /\ \E hdr \in HeaderRows, items \in ItemRows, labels \in [1..NumRows -> NamedLabelCells] :
          ws = Grid(hdr, items, labels, AllCells(NumRows, Len(items)))
    /\ trigger_rows_meta \in MetaLists
    /\ tissues = <<>>
    /\ dose_type_order = FIRST_ORDER

\* the orders in which a run may visit the dose types
InitDoseOrder ==
    /\ ws = Grid(125, <<Str(Chars("GeneA"))>>, <<Str(Chars("HDM")), Str(Chars("Vehicle"))>>,
                 AllCells(2, 1))
    /\ trigger_rows_meta \in MetaLists
    /\ tissues = <<>>
    /\ dose_type_order \in DOSE_TYPE_ORDERS

\* the header row placed before, at the edges of, and after the rows the
\* extraction searches
PlacedHeaderRows == {50, REL_EXP_SEARCH_FIRST - 1, REL_EXP_SEARCH_FIRST, REL_EXP_SEARCH_LAST,
                     REL_EXP_SEARCH_LAST + 1}

InitHeaderRow ==
    /\ \E hdr \in PlacedHeaderRows,
          items \in {<<Str(Chars("GeneA")), Str(Chars("liver"))>>,
                     <<Str(Chars("rACTRIIB")), Str(Chars("APOE4 liver"))>>,
                     <<Str(Chars("GeneA")), Str(Chars("liver")), Num(0), Num(0), Num(0), Num(0), Num(0)>>},
          labels \in {<<Str(Chars("Saline")), Str(Chars("HDM"))>>, <<None, None>>} :
          ws = Grid(hdr, items, labels, AllCells(2, 2))
    /\ trigger_rows_meta \in MetaLists
    /\ tissues \in {<<>>, <<Chars("Lung")>>}
    /\ dose_type_order = FIRST_ORDER

\* rows with and without data under few or no labels, against metadata lists
InitSparseRows ==
    /\ \E labels \in {<<None, None, None>>, <<Str(Chars("Saline")), None, None>>},
          hole \in Holes(3, 2) :
          ws = Grid(125, <<Str(Chars("GeneA")), Str(Chars("GeneB"))>>, labels, AllCells(3, 2) \ hole)
    /\ trigger_rows_meta \in MetaLists
    /\ tissues = <<>>
    /\ dose_type_order = FIRST_ORDER

SuffixLabelCells == {Str(Chars("Saline")), Str(Chars("Saline_#2")), Str(Chars("Lot_#7 HDM"))}

\* labels that repeat, and labels that themselves hold the text "_#"
InitSuffixLabels ==
    /\ \E labels \in [1..3 -> SuffixLabelCells] :
          ws = Grid(125, <<Str(Chars("GeneA"))>>, labels, AllCells(3, 1))
    /\ trigger_rows_meta = <<>>
    /\ tissues = <<>>
    /\ dose_type_order = FIRST_ORDER

NoiseCells == {Str(Chars("#DIV/0!")), Str(Chars("#")), Str(Chars("0.38")), Str(Chars("-12")),
               Str(Chars(" 7 ")), Num(12), Str(Chars("x")), Str(Chars(" "))}

\* a noise cell before, between and after two labels
InitNoise ==
    /\ \E noise \in NoiseCells, at \in 1..3 :
          ws = Grid(125, [j \in 1..3 |-> IF j = at THEN noise
                                         ELSE IF j < at \/ (at = 1 /\ j = 2)
                                              THEN Str(Chars("GeneA"))
                                              ELSE Str(Chars("liver"))],
                    <<Str(Chars("Saline"))>>, AllCells(1, 3))
    /\ trigger_rows_meta = <<>>
    /\ tissues = <<>>
    /\ dose_type_order = FIRST_ORDER

MaxGap == 6    \* the longest run of empty or zero cells in a generated item row

WideNames == Chars("ABCDEFGHIJKLMNOPQRSTUVWXYZabcdefgh")
WideItem(j) == Str(<<"T", WideNames[j]>>)
WideLeads == {1, 26, 29, 30}

\* an item row of n labels, a run of gap cells of one kind, and two labels more
WideItemRow(n, gap, gap_cell) ==
    [j \in 1..(n + gap + 2) |-> IF j <= n THEN WideItem(j)
                                ELSE IF j <= n + gap THEN gap_cell
                                ELSE WideItem(j - gap)]

\* long item rows with runs of empty or zero cells
InitWideItems ==
    /\ \E n \in WideLeads, gap \in 0..MaxGap, gap_cell \in {None, Num(0)} :
          ws = Grid(125, WideItemRow(n, gap, gap_cell), <<Str(Chars("Saline"))>>, AllCells(1, 1))
    /\ trigger_rows_meta = <<>>
    /\ tissues = <<>>
    /\ dose_type_order = FIRST_ORDER

InitExample ==
    /\ ws = ExampleGrid
    /\ trigger_rows_meta = <<>>
    /\ tissues = <<>>
    /\ dose_type_order = FIRST_ORDER

Init ==
    (InitItems \/ InitLabels \/ InitMetadata \/ InitDoseOrder \/ InitHeaderRow \/ InitWideItems
        \/ InitNoise \/ InitSparseRows \/ InitSuffixLabels \/ InitExample) /\ StartStudy

\* process_study_folder: the metadata, the direct extraction, the reconciliation
ProcessStudyFolder ==
    /\ pc = "start"
    /\ \E map \in {extract_trigger_dose_map(trigger_rows_meta, dose_type_order)},
          rel_exp_data \in {extract_relative_expression_data(ws, tissues)} :
           /\ trigger_dose_map' = map
           /\ direct' = rel_exp_data
           /\ relative_expression' = IF rel_exp_data.ok
                                     THEN reconcile(ws, rel_exp_data, map)
                                     ELSE rel_exp_data
    /\ pc' = "processed"
    /\ UNCHANGED <<inputVars, csv_rows, classifyVars, cleanVars, anchorVars, columnVars, workbookVars>>

\* export_to_csv for the one study
ExportToCsv ==
    /\ pc = "processed"
    /\ csv_rows' = process_study_for_csv(tissues, trigger_dose_map, relative_expression)
    /\ pc' = "exported"
    /\ UNCHANGED <<inputVars, trigger_dose_map, direct, relative_expression, classifyVars, cleanVars,
                   anchorVars, columnVars, workbookVars>>

Next == ProcessStudyFolder \/ ExportToCsv

Spec == Init /\ [][Next]_vars

(***************************************************************************)
(* What the runs are checked against                                       *)
(***************************************************************************)
Processed == pc \in {"processed", "exported"}

item_row(rel_exp_data) == rel_exp_data.trigger_start_row - TRIGGER_ROW_OFFSET

\* the rows from start on whose column-B cell is not empty, in row order, as
\* many as the direct extraction reads labels
RECURSIVE labelled_rows_from(_, _)
labelled_rows_from(sheet, row) ==
    IF row > max_row(sheet) THEN <<>>
    ELSE (IF is_empty_or_zero(cell(sheet, row, COLUMN_B)) THEN <<>> ELSE <<row>>)
             \o labelled_rows_from(sheet, row + 1)
labelled_rows(sheet, start) == Take(labelled_rows_from(sheet, start), MAX_TRIGGERS)

\* the rows of the labels the direct extraction keeps: the i-th one is the row
\* whose column-B cell holds the i-th trigger of the filtered list
kept_label_rows(sheet, start) ==
    SelectSeq(labelled_rows(sheet, start),
              LAMBDA r : is_results_trigger(strip(str(cell(sheet, r, COLUMN_B)))))

\* number of value triples a result dictionary stores
RECURSIVE triples_from(_, _)
triples_from(data, i) == IF i > Len(data) THEN 0 ELSE Len(data[i].v) + triples_from(data, i + 1)
stored_triples(rel_exp_data) == triples_from(rel_exp_data.relative_expression_data, 1)

\* C1.  No-data-no-record: in the direct extraction and in the result that is
\* kept (the positional fallback when it is adopted), a pair whose three
\* cells are all null on the row read for the trigger stores no triple; every
\* stored value triple has a non-null member and is the triple of a column of
\* that item on the row read for a trigger of its key that stored it; and
\* every record written has a value, a low or a high bound.
NoDataNoRecord ==
    Processed =>
        /\ \A r \in {direct, relative_expression} :
              /\ \A e \in Range(r.log) :
                    \A j \in 1..Len(r.all_data_items) :
                       all_none(read_values(ws, e.row, r.all_data_columns[j])) => j \notin e.stored
              /\ \A d \in Range(r.relative_expression_data) :
                    \A t \in Range(d.v) :
                       /\ t.v.rel_exp # None \/ t.v.low # None \/ t.v.high # None
                       /\ \E e \in Range(r.log) :
                             /\ e.key = d.k
                             /\ \E j \in e.stored :
                                   /\ r.all_data_items[j] = t.k
                                   /\ t.v = read_values(ws, e.row, r.all_data_columns[j])
        /\ \A i \in 1..Len(csv_rows) :
              \/ csv_rows[i].avg_rel_exp # <<>>
              \/ csv_rows[i].avg_rel_exp_lsd # <<>>
              \/ csv_rows[i].avg_rel_exp_hsd # <<>>

\* C1 witness: a study whose kept result is the positional fallback, whose
\* direct extraction stored triples too, both having read a pair with three
\* null cells, and that wrote records.
NoDataNoRecordWitness ==
    /\ pc = "exported"
    /\ csv_rows # <<>>
    /\ relative_expression.positional_mapping
    /\ direct.relative_expression_data # <<>>
    /\ \A r \in {direct, relative_expression} :
          \E e \in Range(r.log) : \E j \in 1..Len(r.all_data_items) :
             /\ all_none(read_values(ws, e.row, r.all_data_columns[j]))
             /\ e.stored # {}
    /\ \E e \in Range(relative_expression.log) : \E j \in 1..Len(relative_expression.all_data_items) :
          /\ relative_expression.all_data_items[j] # Chars("None")
          /\ all_none(read_values(ws, e.row, relative_expression.all_data_columns[j]))

\* the (trigger, item) pairs of the direct extraction that have data: i a
\* kept label that passes the validity check, j an extracted item, with a
\* non-null cell among the item's three on the row of the label
pairs_with_data ==
    LET rows == kept_label_rows(ws, direct.trigger_start_row)
    IN  {p \in (1..Len(direct.triggers)) \X (1..Len(direct.all_data_items)) :
            /\ ~is_invalid_trigger(direct.triggers[p[1]])
            /\ ~all_none(read_values(ws, rows[p[1]], direct.all_data_columns[p[2]]))}

\* C2.  Completeness of assembly: the direct extraction stores as many value
\* triples as there are (trigger, item) pairs with data, and a study that
\* keeps the direct result writes one record for each such pair.
CompleteAssembly ==
    /\ Processed /\ direct.ok => stored_triples(direct) = Cardinality(pairs_with_data)
    /\ pc = "exported" /\ direct.ok /\ ~relative_expression.positional_mapping
          => Len(csv_rows) = Cardinality(pairs_with_data)

\* C3.  Row alignment: the row the direct extraction reads for a trigger is the
\* row whose column-B cell holds that trigger's label.
RowAlignment ==
    Processed /\ direct.ok =>
        \A e \in Range(direct.log) :
            e.row = kept_label_rows(ws, direct.trigger_start_row)[e.idx]

\* the key of the i-th name: the name at its first occurrence, the name, the
\* separator and N at its N-th
occurrence(names, i) == Cardinality({k \in 1..i : names[k] = names[i]})
key_with(names, i, separator) ==
    IF occurrence(names, i) = 1 THEN names[i]
    ELSE names[i] \o separator \o str_int(occurrence(names, i))

results_names == SelectSeq(direct.triggers, LAMBDA t : ~is_invalid_trigger(t))
metadata_names ==
    LET pairs == filter_metadata_triggers(extract_paired_columns(trigger_rows_meta))
    IN  [i \in 1..Len(pairs) |-> strip(pairs[i].trigger)]

\* the keys given to the results triggers and to the metadata triggers are
\* the names deduplicated with the separator, one key a trigger, each keeping
\* its original name
keys_are(separator) ==
    /\ Len(direct.log) = Len(results_names)
    /\ \A i \in 1..Len(direct.log) :
          /\ direct.log[i].name = results_names[i]
          /\ direct.log[i].key = key_with(results_names, i, separator)
    /\ Len(trigger_dose_map) = Len(metadata_names)
    /\ \A i \in 1..Len(trigger_dose_map) :
          /\ trigger_dose_map[i].k = key_with(metadata_names, i, separator)
          /\ trigger_dose_map[i].v.original_name = metadata_names[i]

\* C4 as stated.  Duplicate trigger disambiguation with keys name and name#N.
TriggerKeysHash == Processed => keys_are(Chars("#"))

\* C4 amended.  Duplicate trigger disambiguation: deduplicating a trigger list
\* in order of appearance gives one key per trigger, name for a first
\* occurrence and name_#N for the N-th (N >= 2); ["Saline","HDM","Saline"]
\* gives Saline, HDM, Saline_#2, each keeping its original name.
TriggerKeysUnderscoreHash ==
    Processed =>
        /\ keys_are(Chars("_#"))
        /\ results_names = <<Chars("Saline"), Chars("HDM"), Chars("Saline")>> =>
              /\ [i \in 1..Len(direct.log) |-> direct.log[i].key]
                    = <<Chars("Saline"), Chars("HDM"), Chars("Saline_#2")>>
              /\ \A e \in Range(direct.log) : original_trigger_name(e.key) = e.name

\* C4 witness: results labels and metadata triggers both Saline, HDM, Saline
TriggerKeysWitness ==
    /\ Processed
    /\ DictKeys(trigger_dose_map) = <<Chars("Saline"), Chars("HDM"), Chars("Saline_#2")>>
    /\ [i \in 1..Len(direct.log) |-> direct.log[i].key]
           = <<Chars("Saline"), Chars("HDM"), Chars("Saline_#2")>>
    /\ DictGet(trigger_dose_map, Chars("Saline_#2")).original_name = Chars("Saline")

\* the rows beneath the item row with a non-null value in a value column of
\* some item, in row order
rows_with_data ==
    LET first == item_row(direct) + 1
        has_data(r) == \E j \in 1..Len(direct.all_data_columns) :
                          ~all_none(read_values(ws, r, direct.all_data_columns[j]))
        found == {r \in first..max_row(ws) : has_data(r)}
    IN  SelectSeq([k \in 1..(max_row(ws) - first + 1) |-> first + k - 1], LAMBDA r : r \in found)

\* C5.  Positional fallback correctness: with M metadata triggers, fewer than
\* M triggers with data from the direct extraction and at least M rows with
\* data beneath the item row, the kept result has M entries, the i-th under
\* the i-th metadata trigger and holding, for every item with data on the
\* i-th such row, that item's values.
PositionalFallbackCorrect ==
    LET M == Len(trigger_dose_map)
        kept == relative_expression.relative_expression_data
    IN  /\ Processed /\ direct.ok
        /\ M > Len(direct.relative_expression_data)
        /\ Len(rows_with_data) >= M
        => /\ Len(kept) = M
           /\ \A i \in 1..M :
                 /\ kept[i].k = trigger_dose_map[i].k
                 /\ \A j \in 1..Len(direct.all_data_items) :
                       LET values == read_values(ws, rows_with_data[i], direct.all_data_columns[j])
                       IN  ~all_none(values) =>
                              /\ DictHas(kept[i].v, direct.all_data_items[j])
                              /\ DictGet(kept[i].v, direct.all_data_items[j]) = values

\* C6.  Stride invariant: successive items of the list used for value
\* extraction are TARGET_COLUMN_SPACING columns apart.
StrideInvariant ==
    Processed /\ direct.ok =>
        \A i \in 1..(Len(direct.all_data_columns) - 1) :
            direct.all_data_columns[i + 1] - direct.all_data_columns[i] = TARGET_COLUMN_SPACING

\* C7.  End-to-end scenario: the documented worksheet gives exactly the two
\* records (CompoundX, 5mpk, GeneA, gene_target) and (Saline, "", liver,
\* tissue_target).
ExampleTwoRecords ==
    ws = ExampleGrid /\ pc = "exported" =>
        /\ Len(csv_rows) = 2
        /\ \E i \in 1..Len(csv_rows) :
              /\ csv_rows[i].trigger = Chars("CompoundX")
              /\ csv_rows[i].dose = Chars("5mpk")
              /\ csv_rows[i].gene_target = Chars("GeneA")
              /\ csv_rows[i].item_type = "gene_target"
        /\ \E i \in 1..Len(csv_rows) :
              /\ csv_rows[i].trigger = Chars("Saline")
              /\ csv_rows[i].dose = <<>>
              /\ csv_rows[i].tissue = Chars("liver")
              /\ csv_rows[i].item_type = "tissue_target"

\* the metadata entry the matching order names for a results key: the entry
\* under the identical key, else the first entry with the trigger's original
\* name, else none
matched_entries(key) ==
    LET same_key == {i \in 1..Len(trigger_dose_map) : trigger_dose_map[i].k = key}
        same_name == {i \in 1..Len(trigger_dose_map) :
                         trigger_dose_map[i].v.original_name = original_trigger_name(key)}
    IN  IF same_key # {} THEN {SetMin(same_key)}
        ELSE IF same_name # {} THEN {SetMin(same_name)}
        ELSE {}

\* a record of the key takes its dose and dose type as the matching order says
takes_matched_dose(key, row) ==
    LET inferred == extract_dose_from_trigger_name(original_trigger_name(key))
    IN  /\ \A i \in matched_entries(key) :
              /\ row.dose_type = str(trigger_dose_map[i].v.dose_type)
              /\ truthy(trigger_dose_map[i].v.dose) => row.dose = trigger_dose_map[i].v.dose.s
        /\ matched_entries(key) = {} =>
              /\ row.dose_type = <<>>
              /\ row.dose = IF inferred = None THEN <<>> ELSE inferred.s

decision_list(text, declared) ==
    LET label == strip(text)
        known == is_known_target(label)
    IN  IF known[1] THEN Target(known[2])
        ELSE IF \E p \in Range(declared) : normalize_string(label) = normalize_string(p)
             THEN Tissue(label)
        ELSE IF is_tissue_name_lowered(label) THEN Tissue(label)
        ELSE IF /\ Len(split(label)) > 1
                /\ \E tt \in TISSUE_TYPES \cup Range(declared) : Contains(lower(label), lower(tt))
             THEN Tissue(label)
        ELSE Target(label)

\* C9.  Classifier decision list: classify_target_or_tissue returns the
\* outcome of the first matching rule of the documented decision list.
ClassifierDecisionList ==
    c_result # Pending => c_result = decision_list(c_text, c_tissues)

\* C10.  Dose inference round-trip: cleaned with no external dose,
\* "AC005120 2x5mpk (D1, 3)" gives the name AC005120 and the dose 2x5mpk, and
\* "250uL  HDM 5ug (D1, 3)" gives the name HDM and the dose 5ug.
DoseInferenceRoundTrip ==
    n_result # <<>> /\ ~n_has_dose =>
        /\ n_trigger = Chars("AC005120 2x5mpk (D1, 3)")
              => n_result = <<Chars("AC005120"), Str(Chars("2x5mpk"))>>
        /\ n_trigger = Chars("250uL  HDM 5ug (D1, 3)")
              => n_result = <<Chars("HDM"), Str(Chars("5ug"))>>

\* the corruption shapes as documented: a bare unit fragment ("/kg"), a
\* dangling multiplier ("4 x", "AC006365 4 x"), a pure numeric ("123"), or an
\* empty or blank label
bare_unit_fragment(label) ==
    Len(label) >= 2 /\ label[1] = "/" /\ \A i \in 2..Len(label) : label[i] \in Letters
dangling_multiplier(label) ==
    \E words \in {split(label)} :
        /\ Len(words) >= 2
        /\ lower(words[Len(words)]) = <<"x">>
        /\ isdigit(words[Len(words) - 1])
pure_numeric(label) == label # <<>> /\ isdigit(remove_char(label, "."))
corruption_shape(label) ==
    \/ strip(label) = <<>>
    \/ bare_unit_fragment(strip(label))
    \/ dangling_multiplier(strip(label))
    \/ pure_numeric(strip(label))

\* C11.  Corrupted labels never reach the output: a label of a corruption
\* shape cleans to the empty display name with no dose.
CorruptedLabelsCleanToEmpty ==
    n_result # <<>> /\ corruption_shape(n_trigger) => n_result = <<<<>>, None>>

\* labels written "<name> <dose token>", with or without a trailing
\* parenthesis: the names and the dose tokens they are made of
LABEL_NAMES == {Chars("AC005120"), Chars("HDM"), Chars("AC1"), Chars("Drug")}
LABEL_DOSE_TOKENS == {Chars("5ug"), Chars("2x5mpk"), Chars("250 ug"), Chars("10 mg/kg"), Chars("5 ml/kg")}
LABEL_SUFFIXES == {<<>>, Chars(" (D1, 3)")}
name_with_dose(name, token, suffix) == name \o <<" ">> \o token \o suffix

\* C12.  External dose precedence: cleaned for a caller that already has a
\* dose, a label infers no dose and its display name is the name without the
\* dose token.
ExternalDosePrecedence ==
    n_result # <<>> /\ n_has_dose =>
        /\ n_result[2] = None
        /\ \A name \in LABEL_NAMES, token \in LABEL_DOSE_TOKENS, suffix \in LABEL_SUFFIXES :
              strip_volume(n_trigger) = name_with_dose(name, token, suffix) => n_result[1] = name

\* the rows find_cell_with_text walks: its search_rows argument, or the
\* default range over the sheet
scanned_rows(sheet, rows) == IF rows # {} THEN rows ELSE 1..(max_row(sheet) - 1)

\* the string cells of the scanned rows that contain the phrase, any case
phrase_cells(sheet, text, rows) ==
    {p \in DOMAIN sheet : /\ p[1] \in scanned_rows(sheet, rows)
                          /\ sheet[p].t = "str"
                          /\ Contains(lower(sheet[p].s), lower(text))}

row_major_first(cells) ==
    CHOOSE p \in cells : \A q \in cells : p[1] < q[1] \/ (p[1] = q[1] /\ p[2] <= q[2])

\* C13. Anchor search result: find_cell_with_text returns the first string
\* cell, in row-major order over the scanned rows, whose text contains the
\* phrase case-insensitively, and None when the scanned rows hold no such
\* cell; numbers and empty cells never match.
AnchorSearchResult ==
    a_result.done =>
        /\ a_result.at # <<>> => a_ws[a_result.at].t = "str"
        /\ IF phrase_cells(a_ws, a_text, a_rows) = {}
           THEN a_result.at = <<>>
           ELSE a_result.at = row_major_first(phrase_cells(a_ws, a_text, a_rows))

\* the rows, among the first 200, that hold a header cell
header_rows(sheet) ==
    {p[1] : p \in {q \in DOMAIN sheet : /\ q[1] <= FULL_SCAN_ROWS
                                        /\ sheet[q].t = "str"
                                        /\ Contains(lower(sheet[q].s), REL_EXP_TEXT)}}

\* the item row under a header on row r yields at least one item
has_items_under(sheet, r) ==
    LET items == extract_targets_from_row(sheet, r + TARGET_ROW_OFFSET, tissues)
    IN  items.targets \o items.tissue_names_for_data # <<>>

\* C14. Anchor fallback scan: a header outside rows 120 to 134 but inside
\* the first 200 rows is still located, so a sheet with such a header and
\* items under it yields extracted data.
HeaderWithinScanLocated ==
    pc # "start" => \A r \in header_rows(ws) : has_items_under(ws, r) => direct.ok

anchor_absent(sheet) ==
    \A p \in DOMAIN sheet :
        p[1] \in REL_EXP_SEARCH_ROWS /\ sheet[p].t = "str" => ~Contains(lower(sheet[p].s), REL_EXP_TEXT)

item_cell_kind(j) ==
    classify_target_or_tissue(
        strip(str(cell(ws, direct.trigger_start_row - TRIGGER_ROW_OFFSET, direct.all_data_columns[j]))),
        tissues).kind

items_named(name) == {j \in 1..Len(direct.all_data_items) : direct.all_data_items[j] = name}

field_less(a, b) == a # <<>> /\ (b = <<>> \/ string_less(a, b))

row_fields(row) == <<row.tissue, Chars(row.item_type), row.gene_target>>

row_before(a, b) ==
    \/ field_less(a[1], b[1])
    \/ a[1] = b[1] /\ field_less(a[2], b[2])
    \/ a[1] = b[1] /\ a[2] = b[2] /\ field_less(a[3], b[3])

\* the study's rows in the order the loops generate them
generated_rows ==
    IF relative_expression.ok
    THEN study_rows_from(study_tissue(tissues, relative_expression), trigger_dose_map,
                         relative_expression, 1)
    ELSE <<>>

generated_at(rows, row) == CHOOSE k \in 1..Len(rows) : rows[k] = row

\* C17. Row ordering: the emitted rows are the generated rows, non-decreasing
\* by tissue, then item type, then item name, an empty field after any name;
\* rows with equal keys keep the order in which they were generated.
RowOrdering ==
    pc = "exported" =>
        LET rows == generated_rows
        IN  /\ Len(csv_rows) = Len(rows)
            /\ Range(csv_rows) = Range(rows)
            /\ \A i, j \in 1..Len(csv_rows) :
                  i < j => /\ ~row_before(row_fields(csv_rows[j]), row_fields(csv_rows[i]))
                           /\ row_fields(csv_rows[i]) = row_fields(csv_rows[j])
                                 => generated_at(rows, csv_rows[i]) < generated_at(rows, csv_rows[j])

\* C18. Determinism: the records of a run do not depend on the order in
\* which the run visits the unordered collection of dose types.
RecordsIndependentOfDoseTypeOrder ==
    pc = "exported" =>
        \A order \in DOSE_TYPE_ORDERS :
            process_study_for_csv(tissues, extract_trigger_dose_map(trigger_rows_meta, order),
                                  relative_expression) = csv_rows

\* the item row of the sheet and its stride cells, counted from 1
scanned_item_row == direct.trigger_start_row - TRIGGER_ROW_OFFSET
stride_column(k) == TARGET_START_COLUMN + (k - 1) * TARGET_COLUMN_SPACING
stride_cell(k) == cell(ws, scanned_item_row, stride_column(k))
last_stride == ((max_column(ws) - TARGET_START_COLUMN) \div TARGET_COLUMN_SPACING) + 1

\* a stride cell that holds a label: not empty or zero, and not noise
is_label_cell(k) ==
    /\ ~is_empty_or_zero(stride_cell(k))
    /\ ~is_invalid_target_name(strip(str(stride_cell(k))))

\* stride cells k - 4 .. k are all empty or zero
run_of_five_ends_at(k) == k >= 5 /\ \A i \in (k - 4)..k : is_empty_or_zero(stride_cell(i))

labels_before(k) == Cardinality({i \in 1..(k - 1) : is_label_cell(i)})

\* C19. Item scan stop rule: a label cell that no run of 5 empty or zero
\* stride cells precedes and that fewer than 30 labels precede is extracted;
\* a label cell after a run of 5 is not; the item count never exceeds 30.
ItemScanStopRule ==
    pc # "start" /\ direct.ok =>
        /\ Len(direct.all_data_items) <= MAX_TARGETS
        /\ \A k \in 1..last_stride :
              is_label_cell(k) =>
                  IF \E i \in 1..(k - 1) : run_of_five_ends_at(i)
                  THEN stride_column(k) \notin Range(direct.all_data_columns)
                  ELSE labels_before(k) < MAX_TARGETS
                          => stride_column(k) \in Range(direct.all_data_columns)

\* the trimmed text of a stride cell that holds a value
stride_text(k) == strip(str(stride_cell(k)))

purely_numeric(text) ==
    /\ \E i \in 1..Len(text) : text[i] \in DIGITS
    /\ \A i \in 1..Len(text) : text[i] \in DIGITS \cup {".", "-"}

\* a stride cell with a value whose trimmed text is noise
is_noise_cell(k) ==
    /\ stride_cell(k) # None
    /\ \/ startswith(stride_text(k), <<"#">>)
       \/ purely_numeric(stride_text(k))
       \/ Len(stride_text(k)) < 2

\* C20. Noise rejection: a stride cell whose trimmed text starts with '#', is
\* purely numeric or is shorter than 2 characters gives no target and no
\* tissue, and the scan goes on to the next stride cell.
NoiseRejected ==
    pc # "start" /\ direct.ok =>
        \A k \in 1..last_stride :
            is_noise_cell(k) =>
                /\ stride_column(k) \notin Range(direct.all_data_columns)
                /\ stride_text(k) \notin Range(direct.all_data_items)
                /\ (/\ is_label_cell(k + 1)
                    /\ ~\E i \in 1..k : run_of_five_ends_at(i)
                    /\ Len(direct.all_data_items) < MAX_TARGETS)
                      => stride_column(k + 1) \in Range(direct.all_data_columns)

NoiseRejectedWitness ==
    /\ pc # "start" /\ direct.ok
    /\ is_label_cell(1) /\ is_noise_cell(2) /\ is_label_cell(3)
    /\ purely_numeric(stride_text(2))
    /\ {stride_column(1), stride_column(3)} \subseteq Range(direct.all_data_columns)
    /\ stride_column(2) \notin Range(direct.all_data_columns)

column_empty(sheet, r) == is_empty_or_zero(cell(sheet, r, COLUMN_B))

\* the row on which the first run of k empty or zero cells from row start
\* is complete, or the row after the sheet's last
stop_row(sheet, start, k) ==
    LET ends == {r \in (start + k - 1)..max_row(sheet) :
                    \A i \in (r - k + 1)..r : column_empty(sheet, i)}
    IN  IF ends = {} THEN max_row(sheet) + 1
        ELSE CHOOSE r \in ends : \A q \in ends : r <= q

\* the trimmed texts of the non-empty cells of rows first..last, in row order
RECURSIVE texts_between(_, _, _)
texts_between(sheet, first, last) ==
    IF first > last THEN <<>>
    ELSE (IF column_empty(sheet, first) THEN <<>>
          ELSE <<strip(str(cell(sheet, first, COLUMN_B)))>>)
         \o texts_between(sheet, first + 1, last)

\* C21. Column extraction tolerance: a read with stop_on_empty and tolerance
\* k returns, in row order, the trimmed texts of the non-empty cells before
\* the first run of k consecutive empty or zero cells, or before the sheet's
\* end.
ColumnTolerance ==
    v_result.done =>
        v_result.values = texts_between(v_ws, v_start, stop_row(v_ws, v_start, v_k) - 1)

\* a single blank row between two texts is passed, and a later run ends the list
ColumnToleranceWitness ==
    /\ v_result.done /\ v_k = 2 /\ v_start = 1
    /\ ~column_empty(v_ws, 1) /\ column_empty(v_ws, 2) /\ ~column_empty(v_ws, 3)
    /\ column_empty(v_ws, 4) /\ column_empty(v_ws, 5) /\ ~column_empty(v_ws, 6)
    /\ v_result.values = <<Chars("r1"), Chars("r3")>>

\* C25. Workbook closing: when safe_workbook_operation has returned, on the
\* path where the operation raised too, no workbook it opened is left open.
NoWorkbookLeftOpen == w_pc = "returned" => w_open = {}

\* the triggers of a result that hold data for at least one item
triggers_with_data(rel) ==
    Cardinality({i \in 1..Len(rel.relative_expression_data) : rel.relative_expression_data[i].v # <<>>})

\* C22. Fallback gate and adoption: the positional result is the study's
\* result only when the metadata triggers outnumber the results triggers
\* with data and the fallback maps more triggers than the direct extraction
\* found; otherwise the direct result is kept unchanged; the final number of
\* triggers with data is never smaller than the direct one.
FallbackGate ==
    pc # "start" /\ direct.ok =>
        /\ relative_expression.positional_mapping =>
              /\ Len(trigger_dose_map) > Len(direct.relative_expression_data)
              /\ Len(relative_expression.relative_expression_data)
                    > Len(direct.relative_expression_data)
        /\ ~relative_expression.positional_mapping => relative_expression = direct
        /\ triggers_with_data(relative_expression) >= triggers_with_data(direct)
        /\ triggers_with_data(direct) = Len(direct.relative_expression_data)

FallbackGateWitness ==
    /\ pc # "start" /\ direct.ok /\ relative_expression.positional_mapping
    /\ Len(direct.relative_expression_data) > 0

\* the rows the fallback scans, from the first label row on
fallback_scan_rows ==
    {r \in direct.trigger_start_row..max_row(ws) :
        r < direct.trigger_start_row
               + (IF Len(trigger_dose_map) + EXTRA_FALLBACK_ROWS < MAX_TRIGGERS
                  THEN Len(trigger_dose_map) + EXTRA_FALLBACK_ROWS ELSE MAX_TRIGGERS)}

\* the scanned rows with a value in a value column of some item
scanned_rows_with_data ==
    {r \in fallback_scan_rows :
        \E j \in 1..Len(relative_expression.all_data_columns), d \in 1..3 :
            cell(ws, r, relative_expression.all_data_columns[j] + d) # None}

\* the i-th smallest member of a set of rows
RECURSIVE ith_row(_, _)
ith_row(rows, i) ==
    LET least == CHOOSE r \in rows : \A q \in rows : r <= q
    IN  IF i = 1 THEN least ELSE ith_row(rows \ {least}, i - 1)

\* C23. Truncation policy of the fallback: with k scanned rows with data and
\* M metadata triggers, the fallback maps the first min(M, k) metadata
\* triggers to the first rows with data, in order, and nothing more.
FallbackTruncation ==
    pc # "start" /\ relative_expression.positional_mapping =>
        LET M == Len(trigger_dose_map)
            k == Cardinality(scanned_rows_with_data)
            mapped == relative_expression.relative_expression_data
        IN  /\ Len(mapped) = (IF M < k THEN M ELSE k)
            /\ Len(relative_expression.log) = Len(mapped)
            /\ \A i \in 1..Len(mapped) :
                  /\ mapped[i].k = trigger_dose_map[i].k
                  /\ relative_expression.log[i].row = ith_row(scanned_rows_with_data, i)

\* more metadata triggers than rows with data, and a row without data between
FallbackTruncationWitness ==
    /\ pc # "start" /\ relative_expression.positional_mapping
    /\ Len(trigger_dose_map) > Cardinality(scanned_rows_with_data)
    /\ Len(relative_expression.relative_expression_data) = 2
    /\ relative_expression.log[2].row = relative_expression.log[1].row + 2

\* C24. Original-name round trip: the trigger name recovered from the key of
\* a raw trigger label, whatever its occurrence number, is the label.
OriginalNameRoundTrip ==
    pc # "start" /\ direct.ok =>
        \A i \in 1..Len(direct.log) : original_trigger_name(direct.log[i].key) = direct.log[i].name

\* C27. TriggerKey distinctness: the keys given to the trigger labels of a
\* list are pairwise distinct across positions, so the map has one entry for
\* each trigger stored.
TriggerKeysDistinct ==
    pc # "start" /\ direct.ok =>
        /\ \A i, j \in 1..Len(direct.log) : i # j => direct.log[i].key # direct.log[j].key
        /\ Len(direct.relative_expression_data)
              = Cardinality({i \in 1..Len(direct.log) : direct.log[i].stored # {}})

\* C26. Items come from non-empty cells only: every extracted item was read
\* from a stride cell of the item row that holds a value and is named by
\* that cell's text; an item row without a label gives no item.
ItemsFromNonEmptyCells ==
    pc # "start" /\ direct.ok =>
        /\ \A j \in 1..Len(direct.all_data_columns) :
              /\ cell(ws, scanned_item_row, direct.all_data_columns[j]) # None
              /\ direct.all_data_items[j]
                    = classify_target_or_tissue(
                          strip(str(cell(ws, scanned_item_row, direct.all_data_columns[j]))),
                          tissues).name
        /\ \E k \in 1..last_stride : is_label_cell(k)

\* C28. Fallback reads the same columns: the columns from which the adopted
\* positional fallback read the items' values are the columns the direct
\* extraction used for the same items.
FallbackSameColumns ==
    pc # "start" /\ relative_expression.positional_mapping =>
        /\ relative_expression.all_data_items = direct.all_data_items
        /\ relative_expression.all_data_columns = direct.all_data_columns

\* C29. Missing dose is empty: no emitted row carries the text 'None' in its
\* dose or dose_type field.
NoNoneText ==
    pc = "exported" =>
        \A n \in 1..Len(csv_rows) :
            csv_rows[n].dose # Chars("None") /\ csv_rows[n].dose_type # Chars("None")

\* C30. Catalog coverage: a label that is a name of the tissue catalog and
\* not a known target, classified with an empty declared-tissue list, is a
\* Tissue.
CatalogCoverage ==
    (/\ c_result # Pending
     /\ c_tissues = <<>>
     /\ c_text \in TISSUE_TYPES
     /\ ~is_known_target(c_text)[1]) => c_result.kind = "tissue"

====
